---- MODULE Spec2Model ----
(***************************************************************************)
(* Model of the moovent-stack admin process supervisor                     *)
(* (moovent_stack/admin/services.py, logs.py, __init__.py, server.py).     *)
(*                                                                         *)
(* Two OS threads drive one StackManager: "loop", the control loop of      *)
(* admin.main (start_all, watchdog restarts, note_exit polling), and       *)
(* "http", one request thread of the admin HTTP server.  A step of a       *)
(* thread is one region of code that runs without another thread being     *)
(* able to observe an intermediate state: a `with self._lock` block that   *)
(* does not block, one blocking wait inside _terminate, or one access to   *)
(* the unlocked dictionaries.                                              *)
(***************************************************************************)
EXTENDS Integers, Sequences, FiniteSets, TLC

\* ---------------------------------------------------------------- bounds
\* requests and watch events handled after the initial start_all
MaxReq == 1
\* polls of restart's port wait before its deadline expires
MaxWaitIters == 1
\* LogStore max_entries (MAX_LOG_LINES scaled down)
MaxEntries == 3

\* lines appended to the log store in the log store specification
MaxAppends == 5

\* ticks of the clock in the watchdog specification
MaxTime == 5

\* ------------------------------------------------------------- constants
\* the registered services, in registration order
Services == <<"a", "b">>
SvcSet == {Services[i] : i \in 1..Len(Services)}
Threads == {"loop", "http"}
NoThread == "none"
\* "no Popen object" (procs.get(name) is None, old_pid = None)
NoPid == 0
\* poll() = None, last_exit_codes.get(name) = None
NoCode == 999
\* a foreign listener whose command line matches the service's cwd
StalePid == 91
\* a foreign listener whose command line does not match
UnrelatedPid == 92
ForeignPids == {StalePid, UnrelatedPid}
\* exit codes of a child that exits by itself
CrashCodes == {0, 1}
\* `name not in self.services`
NoSpec == 0
\* the ServiceSpec objects a caller can pass to register for one name
SpecIds == {1, 2}
\* no register call yet
NoReg == [name |-> "-", dup |-> FALSE, raised |-> FALSE, before |-> NoSpec]
\* services registered with a health_url (the others are probed by port)
HealthUrl == [n \in SvcSet |-> n = Head(Services)]
\* detect_alert found no pattern (None)
NoAlert == [type |-> "none", id |-> 0]
\* detect_alert's alert_patterns: (alert type, pattern), in the order tried
AlertPatterns ==
  << <<"port_in_use", "port in use">>,
     <<"port_in_use", "address already in use">>,
     <<"port_in_use", "EADDRINUSE">>,
     <<"connection_refused", "connection refused">>,
     <<"module_not_found", "ModuleNotFoundError">>,
     <<"module_not_found", "Cannot find module">> >>
\* the phrases a child's output line can carry
Texts == {"ready", "EADDRINUSE"}
\* status_snapshot's detect_alert(name, lookback=60), scaled down
AlertLookback == 2
\* min_id and max_id of an empty buffer (None)
NoId == 0
\* a reader that is not inside a call
IdleReader ==
  [pc |-> "idle", op |-> "-", name |-> Head(Services), limit |-> 0, after |-> 0,
   out |-> <<>>, min |-> NoId, max |-> NoId, truncated |-> FALSE,
   ok |-> FALSE, expired |-> FALSE, alert |-> NoAlert,
   last_id |-> 0, wire |-> <<>>, frame |-> "-"]
\* the watch rules, by their index in ServiceWatchdog._rules
Rules == {1, 2}
\* `i not in self._pending_since`
NoPending == -1
\* the debounce_s values of the rules: none, and more than one poll interval
Debounces == {0, 2}
\* history of a rule: the baseline prime captured, the time of the first
\* modification after it (NoPending if none), the poll times of its events
NoWatchLog == [base |-> 0, first |-> NoPending, emits |-> <<>>]
\* ServiceSpec.repo is None
NoRepo == 0
\* repository paths: a checkout, a symbolic link to it, another checkout
Paths == {1, 2, 3}
\* Path.resolve(): the link resolves to the checkout it points at
Resolve(p) == IF p = 2 THEN 1 ELSE p
\* no restart_repo_services call is under way
IdleRepoRestart ==
  [pc |-> "idle", target |-> NoRepo, todo |-> <<>>, restarted |-> <<>>,
   calls |-> <<>>, want |-> {}]
\* len(self._repos): the repositories an update walks through
UpdateRepos == 2
\* what run_update records for one repository; "restart_error" is a pull
\* whose restart callback raised
RepoOutcomes == {"no_update_available", "dirty_worktree", "updated", "restart_error", "pull_failed"}
\* no run_update call is under way and none has returned
IdleUpdate ==
  [running |-> FALSE,
   pc |-> [t \in Threads |-> "idle"],
   results |-> [t \in Threads |-> <<>>],
   res |-> [t \in Threads |-> "-"]]
\* the requests that call restart()
RestartTops == {"restart", "restart_all", "wd_restart", "repo_restart"}
\* the threads of the lock order specification: the control loop, a request
\* handler, and the reader thread of a child or of an SSE stream
LockThreads == Threads \cup {"reader"}
\* WatchRule.action
WatchActions == {"restart", "node_reinstall_restart", "python_reinstall_restart"}
\* the events one poll can return: one per rule that fired
WatchEvents == [service : SvcSet, action : WatchActions]
\* the most events one poll returns in the model
MaxEvents == 2
\* the lists of events a poll can return
EventLists ==
  UNION {[1..k -> WatchEvents] : k \in 1..MaxEvents}

VARIABLES
  procs,            \* StackManager.procs: service -> pid of its Popen, NoPid if absent
  desired_running,  \* StackManager.desired_running
  restart_counts,   \* StackManager.restart_counts
  last_exit_codes,  \* StackManager.last_exit_codes (NoCode if no key)
  last_pids,        \* StackManager.last_pids (NoPid if no key)
  lock,             \* holder of StackManager._lock
  entries,          \* LogStore._entries: service -> sequence of entries
  next_id,          \* LogStore._next_id
  returncode,       \* service -> Popen.returncode of procs[service] (NoCode while it runs)
  next_pid,         \* OS: pid the next child gets
  owner,            \* OS: pid of a live launched child -> the service it was launched for
  signals,          \* history: <<pid, signal>> sent so far to the children that are alive
  pc,               \* thread -> position
  top,              \* thread -> the request it serves (kept after it returns)
  cur,              \* thread -> service name the current call is about
  queue,            \* thread -> names still to visit in a *_all loop
  tmp,              \* thread -> restart()'s read of restart_counts
  old_pid,          \* thread -> restart()'s old_pid
  iters,            \* thread -> polls done in restart()'s port wait
  tproc,            \* thread -> pid stop() popped and is terminating
  wend,             \* history: thread -> how restart()'s port wait ended
  other,            \* history: thread -> a poll of the port wait found a pid other than old_pid
  seen,             \* history: thread -> pid that listened on the port when start() was called
  ret,              \* thread -> result of the last start/stop/restart call
  br,               \* thread -> branch the last start/stop/restart call took
  reqs,             \* history: requests and watch events begun so far
  exit_lines,       \* history: service -> "process exited" lines logged since its Popen was created
  noted,            \* history: service -> note_exit was called for its current Popen
  stopped_all,      \* history: the stop_all of the KeyboardInterrupt handler has returned
  quiet,            \* history: no start or restart ran on the request thread since Ctrl+C
  services,         \* StackManager.services: name -> the spec registered for it (NoSpec if none)
  reg_last,         \* history: the last register call and how it ended
  rd,               \* the reader of the log store: a GET /api/logs/{name} handler or a since call
  appended,         \* history (log store specification): service -> ids of all lines appended to it
  wd,               \* ServiceWatchdog: rule -> [seen: _last_seen[i], pending: _pending_since[i]]
  debounce,         \* rule -> WatchRule.debounce_s
  fs,               \* file system: rule -> latest mtime of the files its globs match (0 if none)
  now,              \* the clock (time.time()), in ticks
  last_poll,        \* history: the time of the last poll (NoPending before the first)
  wlog,             \* history: rule -> [base, first, emits], see NoWatchLog
  repo,             \* service -> ServiceSpec.repo (NoRepo for None)
  reg_order,        \* the keys of self.services in insertion order
  rr,               \* the restart_repo_services call: see IdleRepoRestart
  late_stop,        \* history: services whose stop ran while a restart of them was in its port wait
  up,               \* UpdateState._update_running and the run_update calls: see IdleUpdate
  evq,              \* control loop: the events of watchdog.poll() from the one being handled on
  evlog,            \* history: the events handled, with desired_running at that time and the outcome
  llock,            \* holder of LogStore._lock
  lk                \* lock order specification: thread -> the lock steps its call has still to take

mgr == <<procs, desired_running, restart_counts, last_exit_codes, last_pids>>
logv == <<entries, next_id, exit_lines, noted>>
osv == <<returncode, next_pid, owner, signals>>
locals == <<tmp, old_pid, iters, tproc>>
ctl == <<pc, top, cur, queue, ret, br, wend, other, seen>>
hist == <<reqs>>
sdv == <<stopped_all, quiet>>
regv == <<services, reg_last>>
rdv == <<rd, appended>>
wdv == <<wd, debounce, fs, now, last_poll, wlog>>
repov == <<repo, reg_order, rr>>
evv == <<evq, evlog>>
lkv == <<llock, lk>>
morev == <<up, evv, lkv>>
side == <<sdv, regv, rdv, wdv, repov, late_stop, morev>>
vars == <<mgr, lock, logv, osv, locals, ctl, hist, side>>

\* ------------------------------------------------------------- Log store
Entry_fixed_id(id, kind, arg) == [id |-> 1, kind |-> kind, arg |-> arg]
\* LogEntry(id=self._next_id, ts=time.time(), line=line): the line is kept as
\* its kind and its argument, the timestamp is left out
Entry(id, kind, arg) == [id |-> id, kind |-> kind, arg |-> arg]

DequeAppend_no_evict(buf, e) == buf \o <<e>>
\* deque(maxlen=N).append: drop the oldest entry when full
DequeAppend(buf, e) ==
  IF Len(buf) >= MaxEntries THEN Tail(buf) \o <<e>> ELSE buf \o <<e>>

\* LogStore.append as a function of the store
AppendEntries(es, nid, service, kind, arg) ==
  [es EXCEPT ![service] = DequeAppend(es[service], Entry(nid, kind, arg))]

LogAppend(service, kind, arg) ==
  /\ entries' = AppendEntries(entries, next_id, service, kind, arg)
  /\ next_id' = next_id + 1
  /\ UNCHANGED <<exit_lines, noted>>

Min(a, b) == IF a < b THEN a ELSE b
Max(a, b) == IF a > b THEN a ELSE b

\* list(buf)[-k:] for k > 0
LastK(buf, k) == SubSeq(buf, IF Len(buf) > k THEN Len(buf) - k + 1 ELSE 1, Len(buf))

\* out[:limit]: the first limit items, all but the last -limit for limit < 0
Slice(out, limit) ==
  SubSeq(out, 1, IF limit >= 0 THEN Min(limit, Len(out)) ELSE Max(Len(out) + limit, 0))

\* LogStore.tail(service, limit) on the buffer of the service
TailOf(buf, limit) ==
  IF buf = <<>> THEN <<>>
  ELSE IF limit <= 0 THEN <<>>
  ELSE LastK(buf, limit)

IsAfter(e, after_id) == e.id > after_id

SinceOf_newest(buf, after_id, limit) ==
  IF buf = <<>> THEN <<>>
  ELSE LET out == SelectSeq(buf, LAMBDA e : IsAfter(e, after_id)) IN
       IF limit <= 0 THEN <<>> ELSE LastK(out, limit)

\* LogStore.since(service, after_id, limit) on the buffer of the service
SinceOf(buf, after_id, limit) ==
  IF buf = <<>> THEN <<>>
  ELSE LET out == SelectSeq(buf, LAMBDA e : IsAfter(e, after_id)) IN Slice(out, limit)

\* LogStore.min_id and LogStore.max_id
MinId(buf) == IF buf = <<>> THEN NoId ELSE buf[1].id
MaxId(buf) == IF buf = <<>> THEN NoId ELSE buf[Len(buf)].id

\* ------------------------------------------------------------ OS helpers
\* pids of the launched children that are alive
alive == DOMAIN owner
\* the process table without the dead pids
Reap(own, dead) == [p \in DOMAIN own \ dead |-> own[p]]
\* proc.poll() of the Popen registered for service n
Poll(n) == returncode[n]

IsLive_poll_inverted(n) == procs[n] # NoPid /\ Poll(n) # NoCode
\* `proc and proc.poll() is None`
IsLive(n) == procs[n] # NoPid /\ Poll(n) = NoCode

Pop_get(n) == procs
\* self.procs.pop(name, None): the registry without the entry of n
Pop(n) == [procs EXCEPT ![n] = NoPid]

GraceSignal_kill == "KILL"
\* the signal _terminate sends first: os.killpg(..., signal.SIGTERM)
GraceSignal == "TERM"

\* ------------------------------------------------------- call and return
EntryPc_stop_all_starts(op) ==
  CASE op \in {"start", "start_all", "shutdown", "finally"} -> "start"
    [] op \in {"stop", "stop_all"} -> "stop"
    [] op = "repo_restart" -> "repo"
    [] OTHER -> "r_read"

\* the method a request runs for each of its names: start for start and
\* start_all, stop for stop and stop_all (also the two stop_all calls of the
\* shutdown), restart (from its counter read) for the rest
EntryPc(op) ==
  CASE op \in {"start", "start_all"} -> "start"
    [] op \in {"stop", "stop_all", "shutdown", "finally"} -> "stop"
    [] op = "repo_restart" -> "repo"
    [] OTHER -> "r_read"

\* the supervisor process has not exited
Up == pc["loop"] # "down"

\* the locals of a call that has returned
ClearLocals(t) ==
  /\ tmp' = [tmp EXCEPT ![t] = 0]
  /\ old_pid' = [old_pid EXCEPT ![t] = NoPid]
  /\ iters' = [iters EXCEPT ![t] = 0]
  /\ tproc' = [tproc EXCEPT ![t] = NoPid]

\* a start/stop/restart call returns r: continue the caller's loop over the
\* remaining names, or finish the request
Ret(t, r, b) ==
  /\ ret' = [ret EXCEPT ![t] = r]
  /\ br' = [br EXCEPT ![t] = b]
  /\ top' = top
  /\ ClearLocals(t)
  /\ IF queue[t] # <<>>
       THEN /\ cur' = [cur EXCEPT ![t] = Head(queue[t])]
            /\ queue' = [queue EXCEPT ![t] = Tail(queue[t])]
            /\ pc' = [pc EXCEPT ![t] = EntryPc(top[t])]
       ELSE /\ cur' = cur
            /\ queue' = queue
            /\ pc' = [pc EXCEPT ![t] = CASE top[t] = "finally" -> "down"
                                           [] top[t] = "shutdown" -> "verify"
                                           [] OTHER -> "ret"]

Raise_uncaught(t) ==
  /\ ret' = [ret EXCEPT ![t] = "raised"]
  /\ br' = [br EXCEPT ![t] = "raised"]
  /\ ClearLocals(t)
  /\ IF t = "loop"
       THEN /\ top' = [top EXCEPT ![t] = "finally"]
            /\ cur' = [cur EXCEPT ![t] = Head(Services)]
            /\ queue' = [queue EXCEPT ![t] = Tail(Services)]
            /\ pc' = [pc EXCEPT ![t] = "stop"]
            /\ UNCHANGED logv
       ELSE /\ top' = top
            /\ cur' = cur
            /\ queue' = [queue EXCEPT ![t] = <<>>]
            /\ pc' = [pc EXCEPT ![t] = "ret"]
            /\ UNCHANGED logv

\* _popen raised inside start(): the exception leaves start, restart and the
\* *_all loop.  The watchdog branch of the control loop catches and logs it;
\* anywhere else on the control thread it reaches main's `finally`
\* (stop_all, then the process exits); on a request thread it ends the request.
Raise(t) ==
  /\ ret' = [ret EXCEPT ![t] = "raised"]
  /\ br' = [br EXCEPT ![t] = "raised"]
  /\ ClearLocals(t)
  /\ IF t = "loop" /\ top[t] # "wd_restart"
       THEN /\ top' = [top EXCEPT ![t] = "finally"]
            /\ cur' = [cur EXCEPT ![t] = Head(Services)]
            /\ queue' = [queue EXCEPT ![t] = Tail(Services)]
            /\ pc' = [pc EXCEPT ![t] = "stop"]
            /\ UNCHANGED logv
       ELSE /\ top' = top
            /\ cur' = cur
            /\ queue' = [queue EXCEPT ![t] = <<>>]
            /\ pc' = [pc EXCEPT ![t] = "ret"]
            /\ IF top[t] = "wd_restart"
                 THEN LogAppend(cur[t], "watchdog failed", 0)
                 ELSE UNCHANGED logv

Budget == reqs < MaxReq

\* the control thread is in the KeyboardInterrupt handler or in `finally`
ShuttingDown == top["loop"] \in {"shutdown", "finally"}

\* a request arrives on a thread (POST /api/services/{name}/{action}) or the
\* control loop handles a WatchEvent
Begin(t, op, names) ==
  /\ Up /\ pc[t] = "idle" /\ Budget
  /\ quiet' = (quiet /\ ~(ShuttingDown /\ EntryPc(op) # "stop"))
  /\ UNCHANGED <<stopped_all, regv, rdv, wdv, repov, late_stop, morev>>
  /\ top' = [top EXCEPT ![t] = op]
  /\ cur' = [cur EXCEPT ![t] = Head(names)]
  /\ queue' = [queue EXCEPT ![t] = Tail(names)]
  /\ pc' = [pc EXCEPT ![t] = EntryPc(op)]
  /\ ret' = [ret EXCEPT ![t] = "-"]
  /\ br' = [br EXCEPT ![t] = "-"]
  /\ wend' = [wend EXCEPT ![t] = "-"]
  /\ other' = [other EXCEPT ![t] = FALSE]
  /\ seen' = [seen EXCEPT ![t] = NoPid]
  /\ reqs' = reqs + 1
  /\ UNCHANGED <<mgr, lock, logv, osv, locals>>

\* the request is answered (or the control loop moves on): the thread is
\* free again and the record of the finished call is dropped
Done(t) ==
  /\ Up /\ pc[t] = "ret"
  /\ pc' = [pc EXCEPT ![t] = "idle"]
  /\ top' = [top EXCEPT ![t] = "-"]
  /\ cur' = [cur EXCEPT ![t] = Head(Services)]
  /\ ret' = [ret EXCEPT ![t] = "-"]
  /\ br' = [br EXCEPT ![t] = "-"]
  /\ wend' = [wend EXCEPT ![t] = "-"]
  /\ other' = [other EXCEPT ![t] = FALSE]
  /\ seen' = [seen EXCEPT ![t] = NoPid]
  /\ UNCHANGED <<side, hist, mgr, lock, logv, osv, locals, queue>>

HttpStart(n) == Begin("http", "start", <<n>>)
HttpStop(n) == Begin("http", "stop", <<n>>)
HttpRestart(n) == Begin("http", "restart", <<n>>)
WatchRestart(n) == Begin("loop", "wd_restart", <<n>>)

\* Ctrl+C while the control loop sleeps: the KeyboardInterrupt handler calls
\* manager.stop_all()
CtrlC ==
  /\ pc["loop"] = "idle"
  /\ top' = [top EXCEPT !["loop"] = "shutdown"]
  /\ cur' = [cur EXCEPT !["loop"] = Head(Services)]
  /\ queue' = [queue EXCEPT !["loop"] = Tail(Services)]
  /\ pc' = [pc EXCEPT !["loop"] = "stop"]
  /\ quiet' = (pc["http"] \in {"idle", "ret"} \/ top["http"] = "stop")
  /\ UNCHANGED <<stopped_all, regv, rdv, wdv, repov, late_stop, morev, hist, mgr, lock, logv, osv, locals, ret, br, wend, other, seen>>

\* the handler verifies the shutdown and returns 0; `finally` then calls
\* manager.stop_all() a second time
Finally ==
  /\ pc["loop"] = "verify"
  /\ stopped_all' = TRUE
  /\ top' = [top EXCEPT !["loop"] = "finally"]
  /\ cur' = [cur EXCEPT !["loop"] = Head(Services)]
  /\ queue' = [queue EXCEPT !["loop"] = Tail(Services)]
  /\ pc' = [pc EXCEPT !["loop"] = "stop"]
  /\ UNCHANGED <<quiet, regv, rdv, wdv, repov, late_stop, morev, hist, mgr, lock, logv, osv, locals, ret, br, wend, other, seen>>

\* ------------------------------------------------------ StackManager.start
\* f is the pid that listens on the service's port at the time of the call
\* (NoPid if the port is free); start() does not look at it, and it is
\* recorded for a direct start request only
Start(t) ==
  /\ Up /\ pc[t] = "start" /\ lock = NoThread
  /\ UNCHANGED <<side, hist, restart_counts, last_exit_codes, lock, signals, wend, other>>
  /\ \E f \in (IF top[t] = "start" THEN ForeignPids ELSE {}) \cup {NoPid} :
     /\ seen' = [seen EXCEPT ![t] = f]
     /\ LET n == cur[t] IN
        IF IsLive(n)
          THEN /\ Ret(t, "T", "noop")
               /\ UNCHANGED <<procs, desired_running, last_pids, logv, returncode, next_pid, owner>>
          ELSE \E ok \in BOOLEAN :
               /\ desired_running' = [desired_running EXCEPT ![n] = TRUE]
               /\ IF ok
                    THEN LET p == next_pid IN
                         /\ procs' = [procs EXCEPT ![n] = p]
                         /\ last_pids' = [last_pids EXCEPT ![n] = p]
                         /\ returncode' = [returncode EXCEPT ![n] = NoCode]
                         /\ next_pid' = next_pid + 1
                         /\ owner' = owner @@ (p :> n)
                         /\ entries' = AppendEntries(entries, next_id, n, "started", p)
                         /\ next_id' = next_id + 1
                         /\ exit_lines' = [exit_lines EXCEPT ![n] = 0]
                         /\ noted' = [noted EXCEPT ![n] = FALSE]
                         /\ Ret(t, "T", "spawned")
                    ELSE /\ Raise(t)
                         /\ UNCHANGED <<procs, last_pids, returncode, next_pid, owner>>

\* ------------------------------------------------------- StackManager.stop
\* stop() returned: restart() goes on to its port wait, anything else returns
StopDone(t, b) ==
  IF top[t] \in RestartTops
    THEN /\ pc' = [pc EXCEPT ![t] = "r_wait"]
         /\ iters' = [iters EXCEPT ![t] = 0]
         /\ tproc' = [tproc EXCEPT ![t] = NoPid]
         /\ UNCHANGED <<top, cur, queue, ret, br, tmp, old_pid>>
    ELSE Ret(t, "T", b)

\* a thread other than t is in the port wait of restart(n)
InPortWait(n, t) ==
  \E u \in Threads \ {t} : top[u] \in RestartTops /\ cur[u] = n /\ pc[u] = "r_wait"

\* `with self._lock:` up to the first blocking call of _terminate
Stop(t) ==
  /\ Up /\ pc[t] = "stop" /\ lock = NoThread
  /\ late_stop' = IF InPortWait(cur[t], t) THEN late_stop \cup {cur[t]} ELSE late_stop
  /\ UNCHANGED <<sdv, regv, rdv, wdv, repov, morev, hist, restart_counts, last_exit_codes, next_pid, owner, wend, other, seen>>
  /\ LET n == cur[t]
         p == procs[n] IN
     /\ procs' = Pop(n)
     /\ returncode' = [returncode EXCEPT ![n] = NoCode]
     /\ desired_running' = [desired_running EXCEPT ![n] = FALSE]
     /\ IF p = NoPid
          THEN /\ StopDone(t, "noproc")
               /\ UNCHANGED <<last_pids, lock, logv, signals>>
          ELSE /\ last_pids' = [last_pids EXCEPT ![n] = p]
               /\ IF Poll(n) # NoCode
                    THEN /\ LogAppend(n, "stopped", 0)
                         /\ StopDone(t, "dead")
                         /\ UNCHANGED <<lock, signals>>
                    ELSE /\ signals' = signals \cup {<<p, GraceSignal>>}
                         /\ lock' = t
                         /\ pc' = [pc EXCEPT ![t] = "term_wait"]
                         /\ tproc' = [tproc EXCEPT ![t] = p]
                         /\ UNCHANGED <<logv, tmp, old_pid, iters, top, cur, queue, ret, br>>

\* proc.wait(timeout=timeout_s) after SIGTERM: the child is gone within the
\* grace period, or TimeoutExpired and SIGKILL is sent
TermWait(t) ==
  /\ Up /\ pc[t] = "term_wait"
  /\ UNCHANGED <<side, hist, mgr, returncode, next_pid, wend, other, seen>>
  /\ LET p == tproc[t] IN
     \E gone \in BOOLEAN :
       IF gone \/ p \notin alive
         THEN /\ owner' = Reap(owner, {p})
              /\ signals' = {sg \in signals : sg[1] # p}
              /\ LogAppend(cur[t], "stopped", 0)
              /\ lock' = NoThread
              /\ StopDone(t, "term")
         ELSE /\ signals' = signals \cup {<<p, "KILL">>}
              /\ pc' = [pc EXCEPT ![t] = "kill_wait"]
              /\ UNCHANGED <<owner, logv, lock, locals, top, cur, queue, ret, br>>

\* proc.wait(timeout=2.0) after SIGKILL; a second TimeoutExpired is swallowed
KillWait(t) ==
  /\ Up /\ pc[t] = "kill_wait"
  /\ UNCHANGED <<side, hist, mgr, returncode, next_pid, wend, other, seen>>
  /\ LET p == tproc[t] IN
     \E gone \in BOOLEAN :
       /\ owner' = IF gone THEN Reap(owner, {p}) ELSE owner
       /\ signals' = {sg \in signals : sg[1] \in DOMAIN owner'}
       /\ LogAppend(cur[t], "stopped", 0)
       /\ lock' = NoThread
       /\ StopDone(t, "kill")

\* ---------------------------------------------------- StackManager.restart
\* self.restart_counts.get(name, 0), read outside the lock
RRead(t) ==
  /\ Up /\ pc[t] = "r_read"
  /\ tmp' = [tmp EXCEPT ![t] = restart_counts[cur[t]]]
  /\ wend' = [wend EXCEPT ![t] = "-"]
  /\ other' = [other EXCEPT ![t] = FALSE]
  /\ pc' = [pc EXCEPT ![t] = "r_write"]
  /\ UNCHANGED <<side, hist, mgr, lock, logv, osv, old_pid, iters, tproc, top, cur, queue, ret, br, seen>>

\* self.restart_counts[name] = ... + 1, the "restart requested" line, and
\* old_pid = int(proc.pid) if the service has a Popen object, else None
RWrite(t) ==
  /\ Up /\ pc[t] = "r_write"
  /\ restart_counts' = [restart_counts EXCEPT ![cur[t]] = tmp[t] + 1]
  /\ LogAppend(cur[t], "restart requested", 0)
  /\ old_pid' = [old_pid EXCEPT ![t] = procs[cur[t]]]
  /\ pc' = [pc EXCEPT ![t] = "stop"]
  /\ UNCHANGED <<side, hist, procs, desired_running, last_exit_codes, last_pids, lock, osv,
                 tmp, iters, tproc, top, cur, queue, ret, br, wend, other, seen>>

\* what tcp_listen_pids can return for the port of n: live children launched
\* for n and foreign processes, or [] (also when lsof fails or times out)
ListenerSets(n) == SUBSET ({p \in alive : owner[p] = n} \cup ForeignPids)

OtherPid_eq(listeners, old) == \E p \in listeners : p = old
\* `any(p != old_pid for p in listeners)`; old_pid = None differs from every pid
OtherPid(listeners, old) == \E p \in listeners : p # old

\* one pass of `while time.time() < deadline:`; open is tcp_open_any's answer
RWait(t) ==
  /\ Up /\ pc[t] = "r_wait" /\ iters[t] < MaxWaitIters
  /\ UNCHANGED <<side, hist, mgr, lock, osv, seen>>
  /\ LET n == cur[t] IN
     \E listeners \in ListenerSets(n), open \in BOOLEAN :
       IF listeners = {} /\ ~open
         THEN /\ wend' = [wend EXCEPT ![t] = "free"]
              /\ pc' = [pc EXCEPT ![t] = "start"]
              /\ UNCHANGED <<logv, locals, top, cur, queue, ret, br, other>>
         ELSE /\ other' = [other EXCEPT ![t] = other[t] \/ \E p \in listeners : p # old_pid[t]]
              /\ IF old_pid[t] # NoPid /\ listeners # {} /\ OtherPid(listeners, old_pid[t])
                   THEN /\ LogAppend(n, "restart blocked", 0)
                        /\ Ret(t, "F", "blocked")
                        /\ UNCHANGED wend
                   ELSE /\ iters' = [iters EXCEPT ![t] = iters[t] + 1]
                        /\ UNCHANGED <<logv, tmp, old_pid, tproc, wend, top, cur, queue, ret, br, pc>>

RDeadline_gives_up(t) ==
  /\ Up /\ pc[t] = "r_wait" /\ iters[t] >= MaxWaitIters
  /\ wend' = [wend EXCEPT ![t] = "timeout"]
  /\ Ret(t, "F", "timeout")
  /\ UNCHANGED <<side, hist, mgr, lock, logv, osv, other, seen>>

\* the deadline has passed: the loop ends and restart goes on to start
RDeadline(t) ==
  /\ Up /\ pc[t] = "r_wait" /\ iters[t] >= MaxWaitIters
  /\ wend' = [wend EXCEPT ![t] = "timeout"]
  /\ pc' = [pc EXCEPT ![t] = "start"]
  /\ UNCHANGED <<side, hist, mgr, lock, logv, osv, locals, top, cur, queue, ret, br, other, seen>>

\* -------------------------------------------- note_exit / status_snapshot
NoteExit_no_dedup(st, n, code) ==
  [lec |-> [st.lec EXCEPT ![n] = code],
   es |-> AppendEntries(st.es, st.nid, n, "exited", code),
   nid |-> st.nid + 1,
   xl |-> [st.xl EXCEPT ![n] = st.xl[n] + 1],
   nt |-> [st.nt EXCEPT ![n] = TRUE]]

\* the line of this entry contains one of detect_alert's patterns: of the
\* lines the model writes only the child's failure output does
\* str.lower() on the phrases of the model
Lower(str) ==
  CASE str = "EADDRINUSE" -> "eaddrinuse"
    [] str = "ModuleNotFoundError" -> "modulenotfounderror"
    [] str = "Cannot find module" -> "cannot find module"
    [] str = "Connection Refused" -> "connection refused"
    [] OTHER -> str

\* entry.line as the phrase it carries: the output of a child is kept in the
\* entry, the "[runner] ..." lines of the supervisor carry none of the phrases
LineOf(e) == IF e.kind = "out" THEN e.arg ELSE "[runner]"

\* `pattern.lower() in line_lower`
Matches(e, pattern) == Lower(pattern) = Lower(LineOf(e))

RECURSIVE FirstMatch(_, _)
\* `for alert_type, pattern in alert_patterns`: the type of the first pattern
\* the line contains, "none" if there is none
FirstMatch(e, k) ==
  IF k > Len(AlertPatterns) THEN "none"
  ELSE IF Matches(e, AlertPatterns[k][2]) THEN AlertPatterns[k][1]
  ELSE FirstMatch(e, k + 1)

HasPattern(e) == FirstMatch(e, 1) # "none"

RECURSIVE ScanBack(_, _)
\* `for entry in reversed(recent)`: the alert of the first entry with a
\* pattern; its message and timestamp are kept as the id of the entry
ScanBack(recent, i) ==
  IF i < 1 THEN NoAlert
  ELSE IF HasPattern(recent[i]) THEN [type |-> FirstMatch(recent[i], 1), id |-> recent[i].id]
  ELSE ScanBack(recent, i - 1)

DetectAlert_whole_buffer(buf, lookback) ==
  IF buf = <<>> THEN NoAlert
  ELSE ScanBack(buf, Len(buf))

\* LogStore.detect_alert(service, lookback) on the buffer of the service
DetectAlert(buf, lookback) ==
  IF buf = <<>> THEN NoAlert
  ELSE LET recent == LastK(buf, lookback) IN ScanBack(recent, Len(recent))

SnapshotEntry_running_only(n, port_open, probe_ok) ==
  LET proc == procs[n]
      code == IF proc # NoPid THEN Poll(n) ELSE NoCode
      running == proc # NoPid /\ code = NoCode
  IN  IF running
        THEN <<[name |-> n, pid |-> proc, running |-> running, exit_code |-> code,
                port_open |-> port_open, health_ok |-> port_open,
                restart_count |-> restart_counts[n],
                desired_running |-> desired_running[n], alert |-> NoAlert]>>
        ELSE <<>>

\* the dictionaries one pass of status_snapshot's loop appends to `out`, for
\* the answers port_open of tcp_open_any and probe_ok of http_ok
SnapshotEntry(n, port_open, probe_ok) ==
  LET proc == procs[n]
      code == IF proc # NoPid THEN Poll(n) ELSE NoCode
      running == proc # NoPid /\ code = NoCode
      health_ok == IF running THEN (IF HealthUrl[n] THEN probe_ok ELSE port_open) ELSE FALSE
      alert == IF running /\ (~health_ok \/ ~port_open)
                 THEN DetectAlert(entries[n], AlertLookback)
                 ELSE NoAlert
  IN  <<[name |-> n, pid |-> proc, running |-> running, exit_code |-> code,
         port_open |-> port_open, health_ok |-> health_ok,
         restart_count |-> restart_counts[n],
         desired_running |-> desired_running[n], alert |-> alert]>>

RECURSIVE SnapshotFrom(_, _, _)
\* `for name, spec in self.services.items()` from the i-th registered name on
SnapshotFrom(i, port_open, probe_ok) ==
  IF i > Len(Services) THEN <<>>
  ELSE LET n == Services[i] IN
       (IF services[n] # NoSpec THEN SnapshotEntry(n, port_open[n], probe_ok[n]) ELSE <<>>)
         \o SnapshotFrom(i + 1, port_open, probe_ok)

\* the list status_snapshot returns
Snapshot(port_open, probe_ok) == SnapshotFrom(1, port_open, probe_ok)

\* what the probes of one status_snapshot call can answer
Probes == [SvcSet -> BOOLEAN]

\* StackManager.note_exit on the state st = [lec, es, nid, xl, nt]
NoteExit(st, n, code) ==
  IF st.lec[n] = code
    THEN [st EXCEPT !.nt[n] = TRUE]
    ELSE [lec |-> [st.lec EXCEPT ![n] = code],
          es |-> AppendEntries(st.es, st.nid, n, "exited", code),
          nid |-> st.nid + 1,
          xl |-> [st.xl EXCEPT ![n] = st.xl[n] + 1],
          nt |-> [st.nt EXCEPT ![n] = TRUE]]

\* the control loop calls note_exit(n, poll) for this service
NotesExit(n) ==
  /\ procs[n] # NoPid
  /\ Poll(n) # NoCode
  /\ desired_running[n]

RECURSIVE PollFrom(_, _)
\* `for name, proc in list(manager.procs.items())` from the i-th service on
PollFrom(st, i) ==
  IF i > Len(Services) THEN st
  ELSE LET n == Services[i] IN
       PollFrom(IF NotesExit(n) THEN NoteExit(st, n, Poll(n)) ELSE st, i + 1)

LoopPoll_teardown ==
  /\ pc["loop"] = "idle"
  /\ LET st == PollFrom([lec |-> last_exit_codes, es |-> entries, nid |-> next_id,
                         xl |-> exit_lines, nt |-> noted], 1) IN
     /\ last_exit_codes' = st.lec
     /\ entries' = st.es
     /\ next_id' = st.nid
     /\ exit_lines' = st.xl
     /\ noted' = st.nt
  /\ IF \E n \in SvcSet : NotesExit(n)
       THEN /\ top' = [top EXCEPT !["loop"] = "finally"]
            /\ cur' = [cur EXCEPT !["loop"] = Head(Services)]
            /\ queue' = [queue EXCEPT !["loop"] = Tail(Services)]
            /\ pc' = [pc EXCEPT !["loop"] = "stop"]
            /\ UNCHANGED <<ret, br, wend, other, seen>>
       ELSE UNCHANGED ctl
  /\ UNCHANGED <<side, hist, procs, desired_running, restart_counts, last_pids, lock, osv, locals>>

\* the exit-detection pass of one control loop iteration
LoopPoll ==
  /\ pc["loop"] = "idle"
  /\ LET st == PollFrom([lec |-> last_exit_codes, es |-> entries, nid |-> next_id,
                         xl |-> exit_lines, nt |-> noted], 1) IN
     /\ last_exit_codes' = st.lec
     /\ entries' = st.es
     /\ next_id' = st.nid
     /\ exit_lines' = st.xl
     /\ noted' = st.nt
  /\ UNCHANGED <<side, hist, procs, desired_running, restart_counts, last_pids, lock, osv, locals, ctl>>

\* status_snapshot (GET /api/services): the fields it writes
SnapshotCodes ==
  [n \in SvcSet |->
     IF procs[n] # NoPid /\ Poll(n) # NoCode THEN Poll(n) ELSE last_exit_codes[n]]

StatusSnapshot ==
  /\ Up /\ pc["http"] = "idle"
  /\ last_exit_codes' = SnapshotCodes
  /\ UNCHANGED <<side, hist, procs, desired_running, restart_counts, last_pids, lock, logv, osv, locals, ctl>>

\* ------------------------------------------------------------ environment
\* a child exits by itself
ChildExit(p, c) ==
  /\ Up /\ p \in alive
  /\ owner' = Reap(owner, {p})
  /\ signals' = {sg \in signals : sg[1] # p}
  /\ returncode' = IF procs[owner[p]] = p THEN [returncode EXCEPT ![owner[p]] = c] ELSE returncode
  /\ UNCHANGED <<side, hist, mgr, lock, logv, next_pid, locals, ctl>>

\* the line that ends the buffer is the "started" line of child p
JustStarted(buf, p) ==
  buf # <<>> /\ buf[Len(buf)].kind = "started" /\ buf[Len(buf)].arg = p

\* the reader thread of a child (_stream_proc) appends a line of its output
\* that carries a failure pattern; the child writes it as its first output
ChildLine(p) ==
  /\ Up /\ p \in alive
  /\ JustStarted(entries[owner[p]], p)
  /\ LogAppend(owner[p], "out", "EADDRINUSE")
  /\ UNCHANGED <<side, hist, mgr, lock, osv, locals, ctl>>

\* ---------------------------------------------------- StackManager.register
\* dict.setdefault(n, v) on a dictionary that has the key iff `present`
SetDefault(f, present, n, v) == IF present THEN f ELSE [f EXCEPT ![n] = v]

\* register(spec) with spec.name = n: the spec is stored under its name
\* whether or not the name is taken, the runtime state is only initialised
\* for a new name, and nothing is raised
Register(n, sp) ==
  /\ services' = [services EXCEPT ![n] = sp]
  /\ desired_running' = SetDefault(desired_running, services[n] # NoSpec, n, TRUE)
  /\ restart_counts' = SetDefault(restart_counts, services[n] # NoSpec, n, 0)
  /\ reg_last' = [name |-> n, dup |-> services[n] # NoSpec, raised |-> FALSE,
                   before |-> services[n]]
  /\ UNCHANGED <<procs, last_exit_codes, last_pids, lock, logv, osv, locals, ctl, hist, sdv, rdv, wdv, repov, late_stop, morev>>

\* -------------------------------------------------- restart_repo_services
\* services registered in the order of Services, none with a repo
NoRepos ==
  /\ repo = [n \in SvcSet |-> NoRepo]
  /\ reg_order = Services
  /\ rr = IdleRepoRestart

\* StackManager.services_for_repo(target)
ServicesForRepo(target) ==
  SelectSeq(reg_order,
            LAMBDA n : repo[n] # NoRepo /\ Resolve(repo[n]) = Resolve(target))

Wanted_always(n) == TRUE
\* manager.desired_running.get(svc_name, False)
Wanted(n) == desired_running[n]

\* restart_repo_services(manager, target) is called
RepoBegin(target) ==
  /\ rr.pc = "idle"
  /\ rr' = [IdleRepoRestart EXCEPT !.pc = "loop", !.target = target,
                                   !.todo = ServicesForRepo(target),
                                   !.want = {n \in SvcSet : desired_running[n]}]
  /\ UNCHANGED <<repo, reg_order>>

\* what restart(n) leaves behind, by how it ends: "true" (stopped and
\* started), "false" (blocked after the stop), "raise" (the launch failed
\* after start set the flag)
AfterRestart(n, how) ==
  /\ restart_counts' = [restart_counts EXCEPT ![n] = @ + 1]
  /\ desired_running' = [desired_running EXCEPT ![n] = (how # "false")]

\* one pass of the loop for the next service of the repo
RepoStep(how) ==
  /\ rr.pc = "loop" /\ rr.todo # <<>>
  /\ LET n == Head(rr.todo) IN
     /\ LogAppend(n, "update", 0)
     /\ IF Wanted(n)
          THEN /\ AfterRestart(n, how)
               /\ rr' = [rr EXCEPT !.calls = Append(@, n),
                                    !.todo = Tail(@),
                                    !.restarted = IF how = "raise" THEN @ ELSE Append(@, n),
                                    !.pc = IF how = "raise" THEN "raised" ELSE @]
          ELSE /\ how = "true"
               /\ rr' = [rr EXCEPT !.todo = Tail(@)]
               /\ UNCHANGED <<restart_counts, desired_running>>
  /\ UNCHANGED <<repo, reg_order>>

\* `return restarted`
RepoReturn ==
  /\ rr.pc = "loop" /\ rr.todo = <<>>
  /\ rr' = [rr EXCEPT !.pc = "done"]
  /\ UNCHANGED <<repo, reg_order, restart_counts, desired_running, entries, next_id,
                 exit_lines, noted>>

\* what the restart of a repository leaves alone
NotRepo ==
  <<procs, last_exit_codes, last_pids, lock, osv, locals, ctl, hist, sdv, regv, rdv, wdv,
    late_stop, morev>>

\* -------------------------------------------------------- ServiceWatchdog
\* _latest_mtime over no files, and the watchdog before prime
IdleWatch ==
  /\ wd = [r \in Rules |-> [seen |-> 0, pending |-> NoPending]]
  /\ debounce = [r \in Rules |-> 0]
  /\ fs = [r \in Rules |-> 0]
  /\ now = 0
  /\ last_poll = NoPending
  /\ wlog = [r \in Rules |-> NoWatchLog]

Prime_no_baseline(latest) == [seen |-> 0, pending |-> NoPending]
\* prime() for one rule: the baseline is the latest mtime, nothing is pending
Prime(latest) == [seen |-> latest, pending |-> NoPending]

Due_at_once(t, pending_at, d) == TRUE
\* not `(t - pending_at) < max(0.0, rule.debounce_s)`
Due(t, pending_at, d) == ~((t - pending_at) < Max(0, d))

Detect_keeps_seen(st, latest, t) ==
  IF latest > st.seen
    THEN IF st.pending = NoPending
           THEN [seen |-> st.seen, pending |-> t]
           ELSE [seen |-> st.seen, pending |-> st.pending]
    ELSE st

\* the `if latest > prev + 1e-9` block of poll for one rule
Detect(st, latest, t) ==
  IF latest > st.seen
    THEN IF st.pending = NoPending
           THEN [seen |-> latest, pending |-> t]
           ELSE [seen |-> Max(st.seen, latest), pending |-> st.pending]
    ELSE st

\* one pass of poll's loop emits the event of the rule
Emits(st, t, d) == st.pending # NoPending /\ Due(t, st.pending, d)

\* the state of rule r after poll(now)
Polled(r) ==
  LET st == Detect(wd[r], fs[r], now) IN
  IF Emits(st, now, debounce[r]) THEN [st EXCEPT !.pending = NoPending] ELSE st

\* poll(now) of the control loop: all rules in one call
WdPoll ==
  /\ wd' = [r \in Rules |-> Polled(r)]
  /\ wlog' = [r \in Rules |->
                IF Emits(Detect(wd[r], fs[r], now), now, debounce[r])
                  THEN [wlog[r] EXCEPT !.emits = Append(@, now)]
                  ELSE wlog[r]]
  /\ last_poll' = now
  /\ UNCHANGED <<debounce, fs, now>>

\* a file the globs of rule r match is written: its mtime becomes the
\* current time, later than every mtime before
Modify(r) ==
  /\ now > fs[r]
  /\ fs' = [fs EXCEPT ![r] = now]
  /\ wlog' = [wlog EXCEPT ![r].first = IF @ = NoPending THEN now ELSE @]
  /\ UNCHANGED <<wd, debounce, now, last_poll>>

\* time passes
Tick ==
  /\ now < MaxTime
  /\ now' = now + 1
  /\ UNCHANGED <<wd, debounce, fs, last_poll, wlog>>

\* what the watchdog specification leaves alone
NotWatch == <<mgr, lock, logv, osv, locals, ctl, hist, sdv, regv, rdv, repov, late_stop, morev>>

\* ---------------------------------------------------------- specification
\* everything but the registry of specs and the two dictionaries register
\* initialises, as StackManager.__init__ and LogStore.__init__ leave it
ManagerConstructed ==
  /\ procs = [n \in SvcSet |-> NoPid]
  /\ last_exit_codes = [n \in SvcSet |-> NoCode]
  /\ last_pids = [n \in SvcSet |-> NoPid]
  /\ lock = NoThread
  /\ entries = [n \in SvcSet |-> <<>>]
  /\ next_id = 1
  /\ exit_lines = [n \in SvcSet |-> 0]
  /\ noted = [n \in SvcSet |-> FALSE]
  /\ returncode = [n \in SvcSet |-> NoCode]
  /\ next_pid = 1
  /\ owner = <<>>
  /\ signals = {}
  /\ pc = [t \in Threads |-> "idle"]
  /\ top = [t \in Threads |-> "-"]
  /\ cur = [t \in Threads |-> Head(Services)]
  /\ queue = [t \in Threads |-> <<>>]
  /\ tmp = [t \in Threads |-> 0]
  /\ old_pid = [t \in Threads |-> NoPid]
  /\ iters = [t \in Threads |-> 0]
  /\ tproc = [t \in Threads |-> NoPid]
  /\ wend = [t \in Threads |-> "-"]
  /\ other = [t \in Threads |-> FALSE]
  /\ seen = [t \in Threads |-> NoPid]
  /\ ret = [t \in Threads |-> "-"]
  /\ br = [t \in Threads |-> "-"]
  /\ reqs = 0
  /\ stopped_all = FALSE
  /\ quiet = TRUE
  /\ rd = IdleReader
  /\ appended = [n \in SvcSet |-> <<>>]
  /\ late_stop = {}
  /\ up = IdleUpdate
  /\ evq = <<>>
  /\ evlog = <<>>
  /\ llock = NoThread
  /\ lk = [t \in LockThreads |-> <<>>]

\* the state after the constructors, before the watchdog is primed
Constructed == ManagerConstructed /\ IdleWatch /\ NoRepos

\* a manager some names are registered with: a registered name may have been
\* stopped (desired_running false) and restarted (restart count above 0); a
\* name that is not registered has no key in either dictionary, which reads
\* as False and 0
RegInit ==
  /\ Constructed
  /\ services \in [SvcSet -> {NoSpec} \cup SpecIds]
  /\ desired_running \in [SvcSet -> BOOLEAN]
  /\ restart_counts \in [SvcSet -> 0..MaxReq]
  /\ \A n \in SvcSet :
       services[n] = NoSpec => (~desired_running[n] /\ restart_counts[n] = 0)
  /\ reg_last = NoReg

RegNext == \E n \in SvcSet, sp \in SpecIds : Register(n, sp)

RegSpec == RegInit /\ [][RegNext]_vars

\* ------------------------------------------------- the log store by itself
\* what the log store specification leaves alone
NotStore ==
  <<mgr, lock, exit_lines, noted, osv, locals, ctl, hist, sdv, regv, wdv, repov, late_stop, morev>>

\* a thread (a reader thread of a child, the control loop, a request thread)
\* calls LogStore.append(n, line)
\* with the line text; notify_all wakes a reader blocked in wait_for_new
StoreAppend(n, text) ==
  /\ next_id <= MaxAppends
  /\ entries' = AppendEntries(entries, next_id, n, "out", text)
  /\ next_id' = next_id + 1
  /\ appended' = [appended EXCEPT ![n] = Append(@, next_id)]
  /\ rd' = IF rd.pc = "waiting" THEN [rd EXCEPT !.pc = "woken"] ELSE rd
  /\ UNCHANGED NotStore

\* GET /api/logs/{n}?tail=k arrives
LogsGet(n, k) ==
  /\ rd.pc = "idle"
  /\ rd' = [IdleReader EXCEPT !.pc = "tail", !.op = "logs", !.name = n, !.limit = k]
  /\ UNCHANGED <<entries, next_id, appended, NotStore>>

\* entries = log_store.tail(name, tail)
LogsTail ==
  /\ rd.pc = "tail"
  /\ rd' = [rd EXCEPT !.pc = "min", !.out = TailOf(entries[rd.name], rd.limit)]
  /\ UNCHANGED <<entries, next_id, appended, NotStore>>

\* min_id = log_store.min_id(name)
LogsMinId ==
  /\ rd.pc = "min"
  /\ rd' = [rd EXCEPT !.pc = "max", !.min = MinId(entries[rd.name])]
  /\ UNCHANGED <<entries, next_id, appended, NotStore>>

\* the `truncated` field of the response
Truncated(min_id, max_id, count) ==
  min_id # NoId /\ max_id # NoId /\ (max_id - min_id + 1) > count

\* max_id = log_store.max_id(name), then the response is built
LogsMaxId ==
  /\ rd.pc = "max"
  /\ LET max_id == MaxId(entries[rd.name]) IN
     rd' = [rd EXCEPT !.pc = "done", !.max = max_id,
                      !.truncated = Truncated(rd.min, max_id, Len(rd.out))]
  /\ UNCHANGED <<entries, next_id, appended, NotStore>>

\* a caller runs log_store.since(n, after_id, limit)
SinceCall(n, after_id, limit) ==
  /\ rd.pc = "idle"
  /\ rd' = [IdleReader EXCEPT !.pc = "done", !.op = "since", !.name = n, !.limit = limit,
                              !.after = after_id,
                              !.out = SinceOf(entries[n], after_id, limit)]
  /\ UNCHANGED <<entries, next_id, appended, NotStore>>

HasNew_oldest(buf, after_id) == IF buf = <<>> THEN FALSE ELSE buf[1].id > after_id
\* LogStore._has_new(service, after_id)
HasNew(buf, after_id) == IF buf = <<>> THEN FALSE ELSE buf[Len(buf)].id > after_id

\* wait_for_new(n, after_id, timeout_s) up to its wait: it returns True at
\* once if there is a newer entry, else it blocks in self._cond.wait(timeout_s)
WaitCall(n, after_id) ==
  /\ rd.pc = "idle"
  /\ rd' = IF HasNew(entries[n], after_id)
             THEN [IdleReader EXCEPT !.pc = "done", !.op = "wait", !.name = n,
                                     !.after = after_id, !.ok = TRUE]
             ELSE [IdleReader EXCEPT !.pc = "waiting", !.op = "wait", !.name = n,
                                     !.after = after_id]
  /\ UNCHANGED <<entries, next_id, appended, NotStore>>

\* the wait ends, by a notify_all or by the timeout, and wait_for_new
\* returns self._has_new(service, after_id)
WaitReturn ==
  /\ rd.pc \in {"waiting", "woken"}
  /\ rd' = [rd EXCEPT !.pc = "done", !.ok = HasNew(entries[rd.name], rd.after),
                      !.expired = (rd.pc = "waiting")]
  /\ UNCHANGED <<entries, next_id, appended, NotStore>>

\* a caller runs log_store.detect_alert(n, lookback)
DetectCall(n, lookback) ==
  /\ rd.pc = "idle"
  /\ rd' = [IdleReader EXCEPT !.pc = "done", !.op = "alert", !.name = n, !.limit = lookback,
                              !.alert = DetectAlert(entries[n], lookback)]
  /\ UNCHANGED <<entries, next_id, appended, NotStore>>

\* the response is sent, the call has returned
ReaderDone ==
  /\ rd.pc = "done"
  /\ rd' = IdleReader
  /\ UNCHANGED <<entries, next_id, appended, NotStore>>

\* the limits a reader passes: nothing, one line, more than the store holds
Limits == {0, 1, MaxEntries - 1, MaxEntries + 2}

LogInit ==
  /\ Constructed
  /\ services = [n \in SvcSet |-> 1]
  /\ desired_running = [n \in SvcSet |-> TRUE]
  /\ restart_counts = [n \in SvcSet |-> 0]
  /\ reg_last = NoReg

LogNext ==
  \/ \E n \in SvcSet, text \in Texts : StoreAppend(n, text)
  \/ \E n \in SvcSet, k \in Limits : LogsGet(n, k)
  \/ LogsTail
  \/ LogsMinId
  \/ LogsMaxId
  \/ \E n \in SvcSet, a \in 0..MaxAppends, k \in Limits : SinceCall(n, a, k)
  \/ \E n \in SvcSet, a \in 0..MaxAppends : WaitCall(n, a)
  \/ WaitReturn
  \/ \E n \in SvcSet, k \in 1..(MaxEntries + 1) : DetectCall(n, k)
  \/ ReaderDone

LogSpec == LogInit /\ [][LogNext]_vars

\* --------------------------------------------------------------- SSE stream
\* `limit=200` of the stream's drain, scaled to the buffers of the model
SseLimit == 2
\* the `since` values of the query string: int() takes a negative one too
SinceIds == {-1, 0, 1, 3}

\* the `id:` and `data:` lines written for one entry
SseFrame(e) == [id |-> e.id, data |-> e]

Drained_stale(es, last_id) == last_id
\* `last_id = entry.id` over the loop: the id of the last entry written
Drained(es, last_id) == es[Len(es)].id

\* GET /api/logs/{n}/stream?since=ID: _serve_sse(n, last_id) sends its headers
SseOpen(n, since) ==
  /\ rd.pc = "idle"
  /\ rd' = [IdleReader EXCEPT !.pc = "drain", !.op = "sse", !.name = n,
                              !.after = since, !.last_id = since]
  /\ UNCHANGED <<entries, next_id, appended, NotStore>>

\* one pass of the loop up to its `continue` or its wait_for_new call
SseDrain ==
  /\ rd.pc = "drain"
  /\ LET es == SinceOf(entries[rd.name], rd.last_id, SseLimit) IN
     rd' = IF es # <<>>
             THEN [rd EXCEPT !.wire = @ \o [i \in 1..Len(es) |-> SseFrame(es[i])],
                             !.last_id = Drained(es, @),
                             !.frame = "data"]
             ELSE [rd EXCEPT !.frame = "keep-alive", !.pc = "sse_wait"]
  /\ UNCHANGED <<entries, next_id, appended, NotStore>>

\* wait_for_new(name, last_id, timeout_s=1.5) up to its wait
SseWait ==
  /\ rd.pc = "sse_wait"
  /\ rd' = [rd EXCEPT !.pc = IF HasNew(entries[rd.name], rd.last_id) THEN "drain" ELSE "waiting"]
  /\ UNCHANGED <<entries, next_id, appended, NotStore>>

\* the wait ends, by a notify_all or after 1.5 s; whatever wait_for_new
\* returns the loop goes round
SseWake ==
  /\ rd.op = "sse"
  /\ rd.pc \in {"waiting", "woken"}
  /\ rd' = [rd EXCEPT !.pc = "drain"]
  /\ UNCHANGED <<entries, next_id, appended, NotStore>>

\* the client has gone: a write raises BrokenPipeError and _serve_sse returns
SseClose ==
  /\ rd.pc = "drain"
  /\ rd' = IdleReader
  /\ UNCHANGED <<entries, next_id, appended, NotStore>>

SseNext ==
  \/ \E n \in SvcSet : StoreAppend(n, "ready")
  \/ \E n \in SvcSet, since \in SinceIds : SseOpen(n, since)
  \/ SseDrain
  \/ SseWait
  \/ SseWake
  \/ SseClose

SseSpec == LogInit /\ [][SseNext]_vars

\* the watchdog the control loop builds and primes: the files a rule matches
\* were written before (mtime 1) or do not exist yet (0)
WatchInit ==
  /\ ManagerConstructed
  /\ services = [n \in SvcSet |-> 1]
  /\ desired_running = [n \in SvcSet |-> TRUE]
  /\ restart_counts = [n \in SvcSet |-> 0]
  /\ reg_last = NoReg
  /\ debounce \in [Rules -> Debounces]
  /\ fs \in [Rules -> {0, 1}]
  /\ now = 1
  /\ last_poll = NoPending
  /\ wd = [r \in Rules |-> Prime(fs[r])]
  /\ wlog = [r \in Rules |-> [NoWatchLog EXCEPT !.base = fs[r]]]
  /\ NoRepos

WatchNext ==
  \/ WdPoll /\ UNCHANGED NotWatch
  \/ Tick /\ UNCHANGED NotWatch
  \/ \E r \in Rules : Modify(r) /\ UNCHANGED NotWatch

WatchSpec == WatchInit /\ [][WatchNext]_vars

\* ------------------------------------------------------ UpdateState.run_update
AfterRun_set_on_error(how) == how = "raise"
\* `finally: with self._lock: self._update_running = False`
AfterRun(how) == FALSE

\* run_update is called on thread t: the test and the setting of
\* _update_running under the lock
UpBegin(t) ==
  /\ up.pc[t] = "idle"
  /\ up' = IF up.running
             THEN [up EXCEPT !.pc[t] = "done", !.res[t] = "update_already_running"]
             ELSE [up EXCEPT !.running = TRUE, !.pc[t] = "loop"]

\* one pass of `for name, repo_path in self._repos`
UpRepo(t, outcome) ==
  /\ up.pc[t] = "loop"
  /\ Len(up.results[t]) < UpdateRepos
  /\ up' = [up EXCEPT !.results[t] = Append(@, outcome)]

\* an exception inside the try block: `except Exception` and `finally`
UpRaise(t) ==
  /\ up.pc[t] = "loop"
  /\ up' = [up EXCEPT !.running = AfterRun("raise"), !.pc[t] = "done", !.res[t] = "error"]

\* the loop is over: the results are stored, the status is refreshed and the
\* success is returned through `finally`
UpReturn(t) ==
  /\ up.pc[t] = "loop"
  /\ Len(up.results[t]) = UpdateRepos
  /\ up' = [up EXCEPT !.running = AfterRun("return"), !.pc[t] = "done", !.res[t] = "success"]

\* the caller has the result
UpAnswered(t) ==
  /\ up.pc[t] = "done"
  /\ up' = [up EXCEPT !.pc[t] = "idle", !.res[t] = "-", !.results[t] = <<>>]

\* what run_update leaves alone
NotUpdate ==
  <<mgr, lock, logv, osv, locals, ctl, hist, sdv, regv, rdv, wdv, repov, late_stop, evv, lkv>>

UpdNext ==
  \/ \E t \in Threads : UpBegin(t) /\ UNCHANGED NotUpdate
  \/ \E t \in Threads, o \in RepoOutcomes : UpRepo(t, o) /\ UNCHANGED NotUpdate
  \/ \E t \in Threads : UpRaise(t) /\ UNCHANGED NotUpdate
  \/ \E t \in Threads : UpReturn(t) /\ UNCHANGED NotUpdate
  \/ \E t \in Threads : UpAnswered(t) /\ UNCHANGED NotUpdate

UpdSpec == LogInit /\ [][UpdNext]_vars

\* ------------------------------------- control loop: the watch events
\* position of a name in the registration order
SvcIndex(n) == CHOOSE i \in 1..Len(Services) : Services[i] = n

\* the log of service n after start_all and, for the services of `off`, a
\* stop request each, in registration order
LaunchedLog(n, off) ==
  <<Entry(SvcIndex(n), "started", SvcIndex(n))>>
  \o (IF n \in off
        THEN <<Entry(Len(Services) + Cardinality({m \in off : SvcIndex(m) <= SvcIndex(n)}),
                     "stopped", 0)>>
        ELSE <<>>)

\* the stack after start_all, with the services of some set stopped on
\* purpose by the operator since; every service belongs to checkout 1
EventInit ==
  \E off \in SUBSET SvcSet :
    /\ procs = [n \in SvcSet |-> IF n \in off THEN NoPid ELSE SvcIndex(n)]
    /\ desired_running = [n \in SvcSet |-> n \notin off]
    /\ restart_counts = [n \in SvcSet |-> 0]
    /\ last_exit_codes = [n \in SvcSet |-> NoCode]
    /\ last_pids = [n \in SvcSet |-> SvcIndex(n)]
    /\ lock = NoThread
    /\ entries = [n \in SvcSet |-> LaunchedLog(n, off)]
    /\ next_id = Len(Services) + Cardinality(off) + 1
    /\ exit_lines = [n \in SvcSet |-> 0]
    /\ noted = [n \in SvcSet |-> FALSE]
    /\ returncode = [n \in SvcSet |-> NoCode]
    /\ next_pid = Len(Services) + 1
    /\ owner = [p \in {SvcIndex(n) : n \in SvcSet \ off} |-> Services[p]]
    /\ signals = {}
    /\ pc = [t \in Threads |-> "idle"]
    /\ top = [t \in Threads |-> "-"]
    /\ cur = [t \in Threads |-> Head(Services)]
    /\ queue = [t \in Threads |-> <<>>]
    /\ tmp = [t \in Threads |-> 0]
    /\ old_pid = [t \in Threads |-> NoPid]
    /\ iters = [t \in Threads |-> 0]
    /\ tproc = [t \in Threads |-> NoPid]
    /\ wend = [t \in Threads |-> "-"]
    /\ other = [t \in Threads |-> FALSE]
    /\ seen = [t \in Threads |-> NoPid]
    /\ ret = [t \in Threads |-> "-"]
    /\ br = [t \in Threads |-> "-"]
    /\ reqs = 0
    /\ stopped_all = FALSE
    /\ quiet = TRUE
    /\ services = [n \in SvcSet |-> 1]
    /\ reg_last = NoReg
    /\ rd = IdleReader
    /\ appended = [n \in SvcSet |-> <<>>]
    /\ IdleWatch
    /\ repo = [n \in SvcSet |-> 1]
    /\ reg_order = Services
    /\ rr = IdleRepoRestart
    /\ late_stop = {}
    /\ up = IdleUpdate
    /\ evq = <<>>
    /\ evlog = <<>>
    /\ llock = NoThread
    /\ lk = [t \in LockThreads |-> <<>>]

\* what the steps of the event loop leave alone
NotEventState ==
  UNCHANGED <<sdv, regv, rdv, wdv, repov, late_stop, up, lkv, hist, mgr, lock, osv, locals>>

\* `for event in watchdog.poll():` begins with the events of one poll
EvPoll(events) ==
  /\ pc["loop"] = "idle" /\ top["loop"] = "-" /\ top["http"] = "-"
  /\ evq = <<>> /\ evlog = <<>>
  /\ evq' = events
  /\ pc' = [pc EXCEPT !["loop"] = "ev"]
  /\ top' = [top EXCEPT !["loop"] = "watch"]
  /\ UNCHANGED <<evlog, logv, cur, queue, ret, br, wend, other, seen>>
  /\ NotEventState

\* the body of the loop for the next event, up to the call of restart;
\* deps_ok is whether ensure_node_deps / ensure_python_deps returned (they
\* raise when the manifest is missing or the installer fails)
EvTake(deps_ok) ==
  /\ pc["loop"] = "ev" /\ evq # <<>>
  /\ deps_ok \/ Head(evq).action # "restart"
  /\ NotEventState
  /\ LET n == Head(evq).service IN
     IF services[n] = NoSpec
       THEN /\ evq' = Tail(evq)
            /\ UNCHANGED <<evlog, logv, ctl>>
       ELSE /\ evlog' = Append(evlog, [service |-> n, wanted |-> desired_running[n],
                                       how |-> IF deps_ok THEN "restart" ELSE "reinstall_failed"])
            /\ IF deps_ok
                 THEN /\ LogAppend(n, "watchdog", 0)
                      /\ top' = [top EXCEPT !["loop"] = "wd_restart"]
                      /\ cur' = [cur EXCEPT !["loop"] = n]
                      /\ pc' = [pc EXCEPT !["loop"] = "r_read"]
                      /\ ret' = [ret EXCEPT !["loop"] = "-"]
                      /\ br' = [br EXCEPT !["loop"] = "-"]
                      /\ UNCHANGED <<evq, queue, wend, other, seen>>
                 ELSE /\ LogAppend(n, "watchdog failed", 0)
                      /\ evq' = Tail(evq)
                      /\ UNCHANGED ctl

\* restart returned or its exception was caught: on to the next event
EvBack ==
  /\ pc["loop"] = "ret" /\ top["loop"] = "wd_restart"
  /\ evq' = Tail(evq)
  /\ evlog' = [evlog EXCEPT ![Len(evlog)].how = br["loop"]]
  /\ pc' = [pc EXCEPT !["loop"] = "ev"]
  /\ top' = [top EXCEPT !["loop"] = "watch"]
  /\ UNCHANGED <<logv, cur, queue, ret, br, wend, other, seen>>
  /\ NotEventState

\* the events of the poll are used up: on to the exit detection
EvEnd ==
  /\ pc["loop"] = "ev" /\ evq = <<>>
  /\ pc' = [pc EXCEPT !["loop"] = "idle"]
  /\ top' = [top EXCEPT !["loop"] = "-"]
  /\ UNCHANGED <<evq, evlog, logv, cur, queue, ret, br, wend, other, seen>>
  /\ NotEventState

\* an update pulled the checkout `target`: the restart callback runs
\* restart_repo_services on the request thread
RepoCall(target) ==
  /\ pc["http"] = "idle" /\ top["http"] = "-"
  /\ pc["loop"] = "idle" /\ top["loop"] = "-"
  /\ evq = <<>> /\ evlog = <<>>
  /\ top' = [top EXCEPT !["http"] = "repo_restart"]
  /\ LET todo == ServicesForRepo(target) IN
     IF todo = <<>>
       THEN /\ pc' = [pc EXCEPT !["http"] = "ret"]
            /\ UNCHANGED <<cur, queue>>
       ELSE /\ pc' = [pc EXCEPT !["http"] = "repo"]
            /\ cur' = [cur EXCEPT !["http"] = Head(todo)]
            /\ queue' = [queue EXCEPT !["http"] = Tail(todo)]
  /\ UNCHANGED <<evq, evlog, logv, ret, br, wend, other, seen>>
  /\ NotEventState

\* the body of restart_repo_services' loop up to the call of restart
RepoPick(t) ==
  /\ pc[t] = "repo"
  /\ LogAppend(cur[t], "update", 0)
  /\ IF Wanted(cur[t])
       THEN /\ pc' = [pc EXCEPT ![t] = "r_read"]
            /\ UNCHANGED <<cur, queue>>
       ELSE IF queue[t] # <<>>
              THEN /\ cur' = [cur EXCEPT ![t] = Head(queue[t])]
                   /\ queue' = [queue EXCEPT ![t] = Tail(queue[t])]
                   /\ pc' = pc
              ELSE /\ pc' = [pc EXCEPT ![t] = "ret"]
                   /\ UNCHANGED <<cur, queue>>
  /\ UNCHANGED <<evq, evlog, top, ret, br, wend, other, seen>>
  /\ NotEventState

\* one pass of the control loop over the events of a poll, or one update
\* restart, with the children exiting at any time
EventNext ==
  \/ \E events \in EventLists : EvPoll(events)
  \/ \E deps_ok \in BOOLEAN : EvTake(deps_ok)
  \/ EvBack
  \/ EvEnd
  \/ \E target \in Paths : RepoCall(target)
  \/ \E t \in Threads : RepoPick(t)
  \/ \E t \in Threads : RRead(t)
  \/ \E t \in Threads : RWrite(t)
  \/ \E t \in Threads : Stop(t)
  \/ \E t \in Threads : TermWait(t)
  \/ \E t \in Threads : KillWait(t)
  \/ \E t \in Threads : RWait(t)
  \/ \E t \in Threads : RDeadline(t)
  \/ \E t \in Threads : Start(t)
  \/ LoopPoll
  \/ \E p \in alive, c \in CrashCodes : ChildExit(p, c)

EventSpec == EventInit /\ [][EventNext]_vars

\* ------------------------------------------------ the two locks
\* The calls are reduced to what they do to StackManager._lock ("acqM",
\* "relM") and to LogStore._lock ("acqL", "relL"), in program order; "term"
\* is _terminate, "wait" is Condition.wait giving the lock up, "wake" is
\* Condition.wait taking it back after a notify or the timeout.

AppendSteps_calls_back == <<"acqL", "acqM", "relM", "relL">>
\* LogStore.append, and tail, since, min_id, max_id, detect_alert alike:
\* one `with self._lock` (or `with self._cond`) block and no call out of it
AppendSteps == <<"acqL", "relL">>

\* start: the service runs already, _popen raises, or the child is launched
\* and the "started" line is appended inside the `with self._lock` block
StartSteps(how) ==
  IF how = "spawned" THEN <<"acqM">> \o AppendSteps \o <<"relM">> ELSE <<"acqM", "relM">>

\* stop: nothing to stop, or _terminate and the "stopped" line inside the
\* `with self._lock` block
StopSteps(present) ==
  IF present THEN <<"acqM", "term">> \o AppendSteps \o <<"relM">> ELSE <<"acqM", "relM">>

\* restart: the "restart requested" line, stop, then the "restart blocked"
\* line or start
RestartSteps(present, how) ==
  AppendSteps \o StopSteps(present)
  \o (IF how = "blocked" THEN AppendSteps ELSE StartSteps(how))

RECURSIVE SnapshotSteps(_)
\* status_snapshot: detect_alert for k of the services, no manager lock
SnapshotSteps(k) == IF k = 0 THEN <<>> ELSE AppendSteps \o SnapshotSteps(k - 1)

\* wait_for_new: returns at once when there is a newer line, else waits
WaitSteps(has_new) ==
  IF has_new THEN <<"acqL", "relL">> ELSE <<"acqL", "wait", "wake", "relL">>

\* the calls a thread can make
LockCalls ==
  {StartSteps(how) : how \in {"noop", "raised", "spawned"}}
  \cup {StopSteps(present) : present \in BOOLEAN}
  \cup {RestartSteps(present, how) : present \in BOOLEAN, how \in {"blocked", "raised", "spawned"}}
  \cup {SnapshotSteps(k) : k \in 1..Len(Services)}
  \cup {AppendSteps}
  \cup {WaitSteps(has_new) : has_new \in BOOLEAN}

\* what the lock steps leave alone
NotLocks ==
  <<mgr, logv, osv, locals, ctl, hist, sdv, regv, rdv, wdv, repov, late_stop, up, evv>>

\* thread t makes a call
LkBegin(t, steps) ==
  /\ lk[t] = <<>>
  /\ lk' = [lk EXCEPT ![t] = steps]
  /\ UNCHANGED <<lock, llock, NotLocks>>

\* thread t takes the next lock step of its call; threading.Lock is not
\* reentrant, so an acquire waits until the lock is free whoever holds it
LkStep(t) ==
  /\ lk[t] # <<>>
  /\ LET step == Head(lk[t]) IN
     /\ step = "acqM" => lock = NoThread
     /\ step \in {"acqL", "wake"} => llock = NoThread
     /\ lock' = CASE step = "acqM" -> t
                  [] step = "relM" -> NoThread
                  [] OTHER -> lock
     /\ llock' = CASE step \in {"acqL", "wake"} -> t
                   [] step \in {"relL", "wait"} -> NoThread
                   [] OTHER -> llock
  /\ lk' = [lk EXCEPT ![t] = Tail(lk[t])]
  /\ UNCHANGED NotLocks

LockNext ==
  \/ \E t \in LockThreads, steps \in LockCalls : LkBegin(t, steps)
  \/ \E t \in LockThreads : LkStep(t)

LockSpec == LogInit /\ [][LockNext]_vars

\* a manager whose services were registered in either order, each with a
\* repo path or none, some of them stopped on purpose
RepoInit ==
  /\ ManagerConstructed
  /\ IdleWatch
  /\ services = [n \in SvcSet |-> 1]
  /\ desired_running \in [SvcSet -> BOOLEAN]
  /\ restart_counts = [n \in SvcSet |-> 0]
  /\ reg_last = NoReg
  /\ repo \in [SvcSet -> {NoRepo} \cup Paths]
  /\ reg_order \in {Services, <<Services[2], Services[1]>>}
  /\ rr = IdleRepoRestart

RepoNext ==
  \/ \E target \in Paths :
       RepoBegin(target) /\ UNCHANGED <<mgr, logv, NotRepo>>
  \/ \E how \in {"true", "false", "raise"} : RepoStep(how) /\ UNCHANGED NotRepo
  \/ RepoReturn /\ UNCHANGED NotRepo

RepoSpec == RepoInit /\ [][RepoNext]_vars

\* admin.main after the services are registered, entering manager.start_all()
Init ==
  /\ procs = [n \in SvcSet |-> NoPid]
  /\ desired_running = [n \in SvcSet |-> TRUE]
  /\ restart_counts = [n \in SvcSet |-> 0]
  /\ last_exit_codes = [n \in SvcSet |-> NoCode]
  /\ last_pids = [n \in SvcSet |-> NoPid]
  /\ lock = NoThread
  /\ entries = [n \in SvcSet |-> <<>>]
  /\ next_id = 1
  /\ exit_lines = [n \in SvcSet |-> 0]
  /\ noted = [n \in SvcSet |-> FALSE]
  /\ returncode = [n \in SvcSet |-> NoCode]
  /\ next_pid = 1
  /\ owner = <<>>
  /\ signals = {}
  /\ pc = [t \in Threads |-> IF t = "loop" THEN "start" ELSE "idle"]
  /\ top = [t \in Threads |-> IF t = "loop" THEN "start_all" ELSE "-"]
  /\ cur = [t \in Threads |-> Head(Services)]
  /\ queue = [t \in Threads |-> IF t = "loop" THEN Tail(Services) ELSE <<>>]
  /\ tmp = [t \in Threads |-> 0]
  /\ old_pid = [t \in Threads |-> NoPid]
  /\ iters = [t \in Threads |-> 0]
  /\ tproc = [t \in Threads |-> NoPid]
  /\ wend = [t \in Threads |-> "-"]
  /\ other = [t \in Threads |-> FALSE]
  /\ seen = [t \in Threads |-> NoPid]
  /\ ret = [t \in Threads |-> "-"]
  /\ br = [t \in Threads |-> "-"]
  /\ reqs = 0
  /\ stopped_all = FALSE
  /\ quiet = TRUE
  /\ services = [n \in SvcSet |-> 1]
  /\ reg_last = NoReg
  /\ rd = IdleReader
  /\ appended = [n \in SvcSet |-> <<>>]
  /\ IdleWatch
  /\ NoRepos
  /\ late_stop = {}
  /\ up = IdleUpdate
  /\ evq = <<>>
  /\ evlog = <<>>
  /\ llock = NoThread
  /\ lk = [t \in LockThreads |-> <<>>]

\* two calls at once: the control loop has taken a WatchEvent and entered
\* restart(n1) while a request thread enters start, stop or restart of n2;
\* no service has been started yet
RaceInit ==
  /\ procs = [n \in SvcSet |-> NoPid]
  /\ desired_running = [n \in SvcSet |-> TRUE]
  /\ restart_counts = [n \in SvcSet |-> 0]
  /\ last_exit_codes = [n \in SvcSet |-> NoCode]
  /\ last_pids = [n \in SvcSet |-> NoPid]
  /\ lock = NoThread
  /\ entries = [n \in SvcSet |-> <<>>]
  /\ next_id = 1
  /\ exit_lines = [n \in SvcSet |-> 0]
  /\ noted = [n \in SvcSet |-> FALSE]
  /\ returncode = [n \in SvcSet |-> NoCode]
  /\ next_pid = 1
  /\ owner = <<>>
  /\ signals = {}
  /\ \E op \in {"start", "stop", "restart"} :
       /\ top = [t \in Threads |-> IF t = "loop" THEN "wd_restart" ELSE op]
       /\ pc = [t \in Threads |-> EntryPc(top[t])]
  /\ cur \in [Threads -> SvcSet]
  /\ queue = [t \in Threads |-> <<>>]
  /\ tmp = [t \in Threads |-> 0]
  /\ old_pid = [t \in Threads |-> NoPid]
  /\ iters = [t \in Threads |-> 0]
  /\ tproc = [t \in Threads |-> NoPid]
  /\ wend = [t \in Threads |-> "-"]
  /\ other = [t \in Threads |-> FALSE]
  /\ seen = [t \in Threads |-> NoPid]
  /\ ret = [t \in Threads |-> "-"]
  /\ br = [t \in Threads |-> "-"]
  /\ reqs = 2
  /\ stopped_all = FALSE
  /\ quiet = TRUE
  /\ services = [n \in SvcSet |-> 1]
  /\ reg_last = NoReg
  /\ rd = IdleReader
  /\ appended = [n \in SvcSet |-> <<>>]
  /\ IdleWatch
  /\ NoRepos
  /\ late_stop = {}
  /\ up = IdleUpdate
  /\ evq = <<>>
  /\ evlog = <<>>
  /\ llock = NoThread
  /\ lk = [t \in LockThreads |-> <<>>]

\* the steps of the two calls and of the children they launch
RaceNext ==
  \/ \E t \in Threads : Start(t)
  \/ \E t \in Threads : Stop(t)
  \/ \E t \in Threads : TermWait(t)
  \/ \E t \in Threads : KillWait(t)
  \/ \E t \in Threads : RRead(t)
  \/ \E t \in Threads : RWrite(t)
  \/ \E t \in Threads : RWait(t)
  \/ \E t \in Threads : RDeadline(t)
  \/ \E p \in alive, c \in CrashCodes : ChildExit(p, c)

RaceSpec == RaceInit /\ [][RaceNext]_vars

\* the steps of the manager, of its callers and of the children
Calls ==
  \/ \E n \in SvcSet : HttpStart(n)
  \/ \E n \in SvcSet : HttpStop(n)
  \/ \E n \in SvcSet : HttpRestart(n)
  \/ \E n \in SvcSet : WatchRestart(n)
  \/ \E t \in Threads : Done(t)
  \/ \E t \in Threads : Start(t)
  \/ \E t \in Threads : Stop(t)
  \/ \E t \in Threads : TermWait(t)
  \/ \E t \in Threads : KillWait(t)
  \/ \E t \in Threads : RRead(t)
  \/ \E t \in Threads : RWrite(t)
  \/ \E t \in Threads : RWait(t)
  \/ \E t \in Threads : RDeadline(t)
  \/ LoopPoll
  \/ StatusSnapshot
  \/ \E p \in alive, c \in CrashCodes : ChildExit(p, c)

\* the supervisor with its shutdown
Next ==
  \/ Calls
  \/ CtrlC
  \/ Finally

Spec == Init /\ [][Next]_vars

TypeOK ==
  /\ procs \in [SvcSet -> 0..(next_pid - 1)]
  /\ lock \in Threads \cup {NoThread}
  /\ \A n \in SvcSet : Len(entries[n]) <= MaxEntries

FairSpec == Spec /\ \A t \in Threads : WF_vars(TermWait(t)) /\ WF_vars(KillWait(t))

\* the supervisor while it runs, with the output of the children
StreamNext ==
  \/ Calls
  \/ \E p \in alive : ChildLine(p)

StreamSpec == Init /\ [][StreamNext]_vars

\* ------------------------------------------------------------ properties
\* this step is a step of thread t
Took(t) == <<pc[t], cur[t], queue[t], iters[t]>>' # <<pc[t], cur[t], queue[t], iters[t]>>
InStop(t) == pc[t] \in {"stop", "term_wait", "kill_wait"}
Terminating(t) == pc[t] \in {"term_wait", "kill_wait"}
\* a direct start(name) call has returned on thread t
StartReturned(t) == pc[t] = "ret" /\ top[t] = "start"

\* C1: start(name) with the port held by a listener whose command line does
\* not match returns failure and launches no child
StartRefusesUnrelatedListener ==
  \A t \in Threads :
    (StartReturned(t) /\ seen[t] = UnrelatedPid /\ br[t] \notin {"noop", "raised"})
      => (ret[t] = "F" /\ br[t] # "spawned")

\* C2: start(name) with the port held by a stale listener of the same service
\* terminates that listener, then launches the child and returns success
StartFreesStaleListener ==
  \A t \in Threads :
    (StartReturned(t) /\ seen[t] = StalePid /\ br[t] \notin {"noop", "raised"})
      => (ret[t] = "T" /\ br[t] = "spawned" /\ \E sg \in signals : sg[1] = StalePid)

RestartFailsOnDeadline ==
  \A t \in Threads :
    (pc[t] = "ret" /\ top[t] \in RestartTops /\ wend[t] = "timeout" /\ br[t] # "raised")
      => (ret[t] = "F" /\ br[t] # "spawned")

\* C5: start on a service with a live process returns success and changes
\* neither the registry nor the set of processes, whatever the other thread does
StartLiveIsNoop ==
  [][\A t \in Threads :
       (pc[t] = "start" /\ Took(t) /\ procs[cur[t]] # NoPid /\ returncode[cur[t]] = NoCode)
         => /\ ret'[t] = "T" /\ br'[t] = "noop"
            /\ procs' = procs /\ last_pids' = last_pids /\ desired_running' = desired_running
            /\ next_pid' = next_pid /\ owner' = owner /\ signals' = signals]_vars

StartLiveReached ==
  \E t \in Threads : StartReturned(t) /\ br[t] = "noop" /\ procs[cur[t]] # NoPid

\* C6: stop of a live process sends the graceful signal first, the forced kill
\* only from the expired grace wait of a process that is still alive, and
\* every stop that waits for a child returns
StopSignalsInOrder ==
  [][\A t \in Threads :
       /\ (pc[t] = "stop" /\ Took(t) /\ procs[cur[t]] # NoPid /\ returncode[cur[t]] = NoCode)
            => /\ <<procs[cur[t]], "TERM">> \in signals'
               /\ <<procs[cur[t]], "KILL">> \notin signals'
               /\ pc'[t] = "term_wait"
       /\ \A p \in alive :
            (<<p, "KILL">> \in signals' /\ <<p, "KILL">> \notin signals)
              => \E u \in Threads : /\ pc[u] = "term_wait" /\ tproc[u] = p
                                    /\ <<p, "TERM">> \in signals /\ p \in alive']_vars

\* C6: the signal order above, and a stop that waits for a child leaves its
\* waits (returns) as long as the supervisor process lives
StopAlwaysReturns ==
  /\ StopSignalsInOrder
  /\ \A t \in Threads : Terminating(t) ~> (~Terminating(t) \/ ~Up)

StopKilledReached ==
  \E t \in Threads : pc[t] = "ret" /\ top[t] = "stop" /\ br[t] = "kill" /\ ret[t] = "T"

\* C7: when stop(name) returns the service has no Popen object, is not
\* desired running and its last pid is the pid that was stopped; no step of
\* stop changes the registry entries of another service
StopFrame ==
  [][\A t \in Threads :
       (InStop(t) /\ Took(t)) =>
         LET n == cur[t]
             p == IF pc[t] = "stop" THEN procs[n] ELSE tproc[t] IN
         /\ \A m \in SvcSet \ {n} :
              /\ procs'[m] = procs[m] /\ desired_running'[m] = desired_running[m]
              /\ restart_counts'[m] = restart_counts[m] /\ last_pids'[m] = last_pids[m]
         /\ ~Terminating(t)' =>
              /\ procs'[n] = NoPid
              /\ ~desired_running'[n]
              /\ p # NoPid => last_pids'[n] = p]_vars

StopReturnedReached ==
  \E t \in Threads :
    /\ pc[t] = "ret" /\ top[t] = "stop" /\ br[t] \in {"term", "kill"}
    /\ procs[cur[t]] = NoPid /\ last_pids[cur[t]] # NoPid
    /\ \E m \in SvcSet \ {cur[t]} : procs[m] # NoPid

\* C8: once the control loop has called note_exit for the exit of a service
\* that is desired running, exactly one "process exited" line was logged for it
ExitLoggedExactlyOnce ==
  \A n \in SvcSet : noted[n] => exit_lines[n] = 1

\* the exit-detection pass of the control loop took a step
LoopPolled == ctl' = ctl /\ (next_id' # next_id \/ noted' # noted)
IsExitLine(e, c) == e.kind = "exited" /\ e.arg = c

\* C9: note_exit with the code already recorded changes neither the recorded
\* code nor the log; with another code it records the code and appends
\* exactly one "process exited" line
NoteExitOncePerCode ==
  [][LoopPolled =>
       /\ \A n \in SvcSet :
            IF NotesExit(n) /\ last_exit_codes[n] # returncode[n]
              THEN /\ last_exit_codes'[n] = returncode[n]
                   /\ \E i \in next_id..(next_id' - 1) :
                        entries'[n] = DequeAppend(entries[n], Entry(i, "exited", returncode[n]))
              ELSE /\ last_exit_codes'[n] = last_exit_codes[n]
                   /\ entries'[n] = entries[n]
       /\ next_id' - next_id =
            Cardinality({n \in SvcSet : NotesExit(n) /\ last_exit_codes[n] # returncode[n]})]_vars

\* a second exit of a service was recorded with a code other than the first
NoteExitNewCodeReached ==
  \E n \in SvcSet :
    \E i \in DOMAIN entries[n], c \in CrashCodes, d \in CrashCodes :
      /\ c # d
      /\ i < Len(entries[n])
      /\ IsExitLine(entries[n][i], c)
      /\ IsExitLine(entries[n][Len(entries[n])], d)
      /\ last_exit_codes[n] = d

\* C10: a child that cannot be spawned is reported as a failure result of
\* start, never as an exception, and the supervisor keeps running
LaunchFailureNotRaised ==
  /\ \A t \in Threads : ret[t] # "raised"
  /\ Up

\* the control loop called note_exit for a service it had not noted yet
NoteExitCalled == \E n \in SvcSet : ~noted[n] /\ noted'[n]

\* C11: the control loop's note_exit for an unexpected exit changes no
\* process handle, desired_running flag or restart count, sends no signal,
\* and leaves the control loop running
ExitDoesNotCascade ==
  [][NoteExitCalled =>
       /\ procs' = procs /\ desired_running' = desired_running
       /\ restart_counts' = restart_counts
       /\ signals' = signals /\ owner' = owner
       /\ pc'["loop"] = "idle" /\ top'["loop"] = top["loop"]]_vars

ExitNotedSiblingRunning ==
  \E n \in SvcSet, m \in SvcSet :
    /\ n # m /\ noted[n] /\ exit_lines[n] > 0 /\ desired_running[n]
    /\ procs[m] \in alive /\ returncode[m] = NoCode
    /\ pc["loop"] = "idle"

\* C12: when restart(name) returns success the service has a live process
\* whose pid is not the pid restart recorded before it stopped the service
RestartReplacesProcess ==
  [][\A t \in Threads :
       (pc[t] = "start" /\ top[t] \in RestartTops /\ Took(t) /\ ret'[t] = "T")
         => LET n == cur[t] IN
            /\ procs'[n] # NoPid /\ procs'[n] \in DOMAIN owner'
            /\ returncode'[n] = NoCode
            /\ procs'[n] # old_pid[t]]_vars

\* a restart launched the third child: both services had been started and
\* the restart replaced one of them
RestartReplacedReached ==
  \E t \in Threads :
    /\ pc[t] = "ret" /\ top[t] \in RestartTops /\ ret[t] = "T" /\ br[t] = "spawned"
    /\ wend[t] = "free" /\ procs[cur[t]] = 3 /\ restart_counts[cur[t]] = 1

\* C13 as stated: after the first stop_all of the shutdown no service has a
\* process handle and no service is desired running, and the second stop_all
\* sends no signal and changes no handle, flag or pid
StopAllIdempotent ==
  /\ [](stopped_all => \A n \in SvcSet : procs[n] = NoPid /\ ~desired_running[n])
  /\ [][(top["loop"] = "finally" /\ stopped_all /\ Took("loop"))
         => /\ signals' = signals /\ owner' = owner
            /\ procs' = procs /\ desired_running' = desired_running
            /\ last_pids' = last_pids
            /\ pc'["loop"] \in {"stop", "down"}]_vars

\* C13 amended: the same, as long as no start or restart has run on the
\* request thread since the shutdown began
StopAllIdempotentIfQuiet ==
  /\ []((stopped_all /\ quiet) => \A n \in SvcSet : procs[n] = NoPid /\ ~desired_running[n])
  /\ [][(top["loop"] = "finally" /\ stopped_all /\ quiet /\ Took("loop"))
         => /\ signals' = signals /\ owner' = owner
            /\ procs' = procs /\ desired_running' = desired_running
            /\ last_pids' = last_pids
            /\ pc'["loop"] \in {"stop", "down"}]_vars

SecondStopAllDone ==
  /\ pc["loop"] = "down" /\ stopped_all /\ quiet
  /\ \A n \in SvcSet : last_pids[n] # NoPid /\ procs[n] = NoPid

\* C14: register with a name that is already registered raises and leaves
\* the registered spec unchanged
RegisterDuplicateFails ==
  reg_last.dup => (reg_last.raised /\ services[reg_last.name] = reg_last.before)

\* the names of the entries of a snapshot, in order
Names(out) == [i \in DOMAIN out |-> out[i].name]
Registered(n) == services[n] # NoSpec

\* C15: whatever the probes answer, status_snapshot returns exactly one
\* entry per registered service, in registration order
SnapshotOnePerService ==
  \A port_open \in Probes, probe_ok \in Probes :
    Names(Snapshot(port_open, probe_ok)) = SelectSeq(Services, Registered)

\* one service has crashed, another is stopped or was never started
SnapshotCrashedAndStopped ==
  \E n \in SvcSet, m \in SvcSet :
    /\ procs[n] # NoPid /\ returncode[n] # NoCode
    /\ procs[m] = NoPid
    /\ Len(Snapshot([x \in SvcSet |-> FALSE], [x \in SvcSet |-> FALSE])) = Len(Services)

\* C16: a snapshot entry whose health verdict is failing while the recent
\* lines of the service hold a failure pattern carries an alert
AlertWhenHealthFailing ==
  \A port_open \in Probes, probe_ok \in Probes :
    LET out == Snapshot(port_open, probe_ok) IN
    \A i \in DOMAIN out :
      (~out[i].health_ok /\ DetectAlert(entries[out[i].name], AlertLookback) # NoAlert)
        => out[i].alert # NoAlert

\* the ids of all the entries the store holds
HeldIds == UNION {{entries[n][i].id : i \in DOMAIN entries[n]} : n \in SvcSet}

\* C17: ids are unique in the store and increase within each buffer, every
\* id handed out is below _next_id, and an append gives its entry an id that
\* was never handed out before
LogIdsIncrease ==
  /\ [](\A n \in SvcSet : \A i \in DOMAIN entries[n] :
          /\ entries[n][i].id < next_id
          /\ i > 1 => entries[n][i - 1].id < entries[n][i].id
          /\ \A m \in SvcSet \ {n} : \A j \in DOMAIN entries[m] :
               entries[m][j].id # entries[n][i].id)
  /\ [][\A n \in SvcSet :
          entries'[n] # entries[n]
            => LET e == entries'[n][Len(entries'[n])] IN
               /\ e.id >= next_id /\ e.id < next_id'
               /\ \A x \in HeldIds : x < e.id]_vars

\* a service holds lines from before and after a stop/start cycle, the last
\* written by its reader thread, and a line of another service lies between
LogIdsAcrossRestart ==
  \E n \in SvcSet, m \in SvcSet :
    /\ n # m /\ Len(entries[n]) >= 2
    /\ \E i \in DOMAIN entries[n], k \in DOMAIN entries[m] :
         /\ entries[n][i].kind = "stopped"
         /\ entries[n][Len(entries[n])].kind = "out"
         /\ entries[n][i].id < entries[m][k].id
         /\ entries[m][k].id < entries[n][Len(entries[n])].id

Ids(es) == [i \in DOMAIN es |-> es[i].id]

\* C18: a buffer never holds more than MaxEntries entries, it holds the
\* MaxEntries most recently appended entries of its service, and tail with
\* limit k returns at most min(k, MaxEntries) entries, the last of the buffer
BufferBounded ==
  /\ [](\A n \in SvcSet :
          /\ Len(entries[n]) <= MaxEntries
          /\ Ids(entries[n]) = LastK(appended[n], MaxEntries))
  /\ [][rd'.pc = "min" /\ rd.pc = "tail"
          => /\ Len(rd'.out) <= Min(rd.limit, MaxEntries)
             /\ rd'.out = SubSeq(entries[rd.name],
                                  Len(entries[rd.name]) - Len(rd'.out) + 1,
                                  Len(entries[rd.name]))]_vars

\* tail with a limit above MaxEntries on a buffer that has overflowed
TailOfOverflowedBuffer ==
  /\ rd.pc = "min" /\ rd.limit > MaxEntries
  /\ Len(rd.out) = MaxEntries
  /\ Len(appended[rd.name]) > MaxEntries

\* C19: the response of GET /api/logs/{name} has truncated = true exactly
\* when entries of the service have been evicted from its buffer
TruncatedIffEvicted ==
  (rd.pc = "done" /\ rd.op = "logs")
    => (rd.truncated <=> Len(appended[rd.name]) > MaxEntries)

\* C20: since returns entries of the service with an id above after_id, in
\* increasing id order, at most limit of them, and every retained entry
\* above after_id it leaves out is newer than all it returns
SinceOldestFirst ==
  [][(rd.pc = "idle" /\ rd'.pc = "done" /\ rd'.op = "since")
       => LET out == rd'.out
              buf == entries[rd'.name] IN
          /\ Len(out) <= rd'.limit
          /\ \A i \in DOMAIN out :
               /\ out[i].id > rd'.after
               /\ \E j \in DOMAIN buf : buf[j] = out[i]
               /\ i > 1 => out[i - 1].id < out[i].id
          /\ \A j \in DOMAIN buf :
               (buf[j].id > rd'.after /\ \A i \in DOMAIN out : out[i] # buf[j])
                 => /\ Len(out) = rd'.limit
                    /\ \A i \in DOMAIN out : out[i].id < buf[j].id]_vars

\* a since call that skipped an older entry and was cut by its limit
SinceCutByLimit ==
  /\ rd.pc = "done" /\ rd.op = "since"
  /\ rd.after > 0 /\ rd.limit > 0 /\ Len(rd.out) = rd.limit
  /\ rd.out[1].id > rd.after + 1
  /\ Len(entries[rd.name]) = MaxEntries

\* C21: wait_for_new returns false only when its timeout has elapsed
WaitReturnsFalseOnlyOnTimeout ==
  (rd.pc = "done" /\ rd.op = "wait" /\ ~rd.ok) => rd.expired

\* the entries detect_alert looks at: the last `lookback` of the buffer
Window(buf, lookback) ==
  {i \in DOMAIN buf : i > Len(buf) - lookback}

\* C22: detect_alert returns the alert of the newest entry among the last
\* `lookback` entries whose line contains a pattern in any letter case, typed
\* by that pattern and stamped with that entry; no alert if none of them does
DetectAlertNewestInWindow ==
  [][(rd.pc = "idle" /\ rd'.pc = "done" /\ rd'.op = "alert")
       => LET buf == entries[rd'.name]
              hits == {i \in Window(buf, rd'.limit) :
                         \E k \in DOMAIN AlertPatterns :
                           Lower(AlertPatterns[k][2]) = Lower(buf[i].arg)} IN
          IF hits = {}
            THEN rd'.alert = NoAlert
            ELSE \E i \in hits :
                   /\ \A j \in hits : j <= i
                   /\ rd'.alert.id = buf[i].id
                   /\ \E k \in DOMAIN AlertPatterns :
                        /\ Lower(AlertPatterns[k][2]) = Lower(buf[i].arg)
                        /\ rd'.alert.type = AlertPatterns[k][1]]_vars

\* detect_alert found nothing although an entry older than its lookback
\* holds a pattern
DetectAlertIgnoresOlder ==
  /\ rd.pc = "done" /\ rd.op = "alert" /\ rd.alert = NoAlert
  /\ rd.limit < Len(entries[rd.name])
  /\ HasPattern(entries[rd.name][1])

\* detect_alert returned the newer of two entries with a pattern in its
\* lookback
DetectAlertNewestOfTwo ==
  /\ rd.pc = "done" /\ rd.op = "alert" /\ rd.alert.type = "port_in_use"
  /\ \E i \in DOMAIN entries[rd.name] :
       /\ entries[rd.name][i].id < rd.alert.id
       /\ entries[rd.name][i].arg = "EADDRINUSE"
       /\ i > Len(entries[rd.name]) - rd.limit

\* ------------------------------------------------------------ C23
EventsOf(r) == wlog[r].emits

\* C23: after prime(), poll emits no event for a rule as long as no file the
\* rule matches has an mtime above the baseline prime captured, whatever the
\* debounce and however much time passes.
NoEventWithoutChange ==
  \A r \in Rules :
    fs[r] <= wlog[r].base => EventsOf(r) = <<>> /\ wd[r].pending = NoPending

\* a rule with files older than the baseline has been polled long after
\* prime while the other rule has had its event
PolledUnchangedRule ==
  \E r, q \in Rules :
    /\ wlog[r].base = 1 /\ fs[r] = 1
    /\ last_poll >= 3
    /\ EventsOf(r) = <<>>
    /\ EventsOf(q) # <<>>

\* ------------------------------------------------------------ C24
\* every modification of the run so far falls within a window shorter than
\* the debounce that opens at the first one
Burst(r) ==
  /\ wlog[r].first # NoPending
  /\ fs[r] - wlog[r].first < debounce[r]

\* C24: the modifications of a burst shorter than the debounce D of the rule
\* produce exactly one event: never a second one; the one event comes from a
\* poll no earlier than D after the first modification; until it has come
\* the change is undetected or pending, and no poll at or after the end of
\* the debounce leaves it pending; once it has come nothing is left that a
\* later poll could emit.
BurstGivesOneEvent ==
  \A r \in Rules :
    Burst(r) =>
      /\ Len(EventsOf(r)) <= 1
      /\ \A i \in DOMAIN EventsOf(r) : EventsOf(r)[i] >= wlog[r].first + debounce[r]
      /\ EventsOf(r) = <<>> => (wd[r].pending # NoPending \/ wd[r].seen < fs[r])
      /\ wd[r].pending # NoPending => last_poll - wd[r].pending < debounce[r]
      /\ EventsOf(r) # <<>> => (wd[r].pending = NoPending /\ wd[r].seen = fs[r])

\* a burst of two modifications has had its one event and been polled again
BurstEventEmitted ==
  \E r \in Rules :
    /\ Burst(r)
    /\ fs[r] > wlog[r].first
    /\ Len(EventsOf(r)) = 1
    /\ last_poll > EventsOf(r)[1]

\* ------------------------------------------------------------ C25
\* C25: a poll emits at most one event for a rule, and the poll times of two
\* consecutive events of a rule differ by at least its debounce, however
\* often its files change.
EventsSpacedByDebounce ==
  /\ [][\A r \in Rules : Len(EventsOf(r)') <= Len(EventsOf(r)) + 1]_vars
  /\ [](\A r \in Rules : \A i \in DOMAIN EventsOf(r) :
          i > 1 => EventsOf(r)[i] - EventsOf(r)[i - 1] >= debounce[r])

\* a debounced rule whose files changed at every tick has had two events
TwoEventsUnderChurn ==
  \E r \in Rules :
    /\ debounce[r] > 0
    /\ Len(EventsOf(r)) = 2
    /\ fs[r] - wlog[r].first >= 3

\* ------------------------------------------------------------ C26
\* the stream's drain finds no entry newer than last_id
DrainFindsNothing ==
  rd.pc = "drain" /\ SinceOf(entries[rd.name], rd.last_id, SseLimit) = <<>>

\* C26: a stream opened with since=ID writes entries of its service in
\* strictly increasing id order, each with an id above ID and each as an id
\* line and a data line of the same entry; a drain that finds nothing new
\* writes the keep-alive comment and goes to the timed wait, which can always
\* end and leads back to the drain.
SseStreamInOrder ==
  /\ [](rd.op = "sse" =>
          \A i \in DOMAIN rd.wire :
            /\ rd.wire[i].id > rd.after
            /\ rd.wire[i].id = rd.wire[i].data.id
            /\ \E j \in DOMAIN appended[rd.name] : appended[rd.name][j] = rd.wire[i].id
            /\ i > 1 => rd.wire[i].id > rd.wire[i - 1].id)
  /\ [][(DrainFindsNothing /\ rd' # rd) =>
           (rd' = IdleReader \/ (rd'.frame = "keep-alive" /\ rd'.pc = "sse_wait"))]_vars
  /\ [][(rd.op = "sse" /\ rd.pc \in {"waiting", "woken"} /\ rd' # rd) =>
           rd'.pc \in {"woken", "drain"}]_vars
  /\ []((rd.op = "sse" /\ rd.pc \in {"waiting", "woken"}) => ENABLED SseWake)

\* a stream opened with since=1 has written three entries in two drains and
\* then a keep-alive
SseStreamedThenIdle ==
  /\ rd.op = "sse"
  /\ rd.after = 1
  /\ Len(rd.wire) = 3
  /\ rd.frame = "keep-alive"
  /\ rd.pc = "woken"

\* ------------------------------------------------------------ C27
\* the registered services whose repo resolves to the target and whose
\* desired_running flag was set when the call began, in registration order
RepoSelection ==
  SelectSeq(reg_order,
            LAMBDA n : /\ services[n] # NoSpec
                       /\ repo[n] # NoRepo
                       /\ Resolve(repo[n]) = Resolve(rr.target)
                       /\ n \in rr.want)

IsPrefix(a, b) == Len(a) <= Len(b) /\ a = SubSeq(b, 1, Len(a))

\* C27: restart_repo_services calls restart only on the registered services
\* of the repo that are desired running, in registration order, and when it
\* returns it has called restart on every one of them and returns their
\* names; a service of another repo, with no repo, or stopped on purpose is
\* never restarted.
RepoRestartsSelection ==
  /\ rr.pc # "idle" => IsPrefix(rr.calls, RepoSelection)
  /\ rr.pc = "done" => (rr.calls = RepoSelection /\ rr.restarted = RepoSelection)
  /\ rr.pc # "idle" =>
       \A n \in SvcSet :
         restart_counts[n] = Cardinality({i \in DOMAIN rr.calls : rr.calls[i] = n})

\* the call returned one name, reached through a link to the checkout,
\* after passing over a service of the same repo that was stopped on purpose
RepoRestartSkippedStopped ==
  /\ rr.pc = "done"
  /\ Len(rr.restarted) = 1
  /\ repo[rr.restarted[1]] # rr.target
  /\ reg_order[1] # rr.restarted[1]
  /\ repo[reg_order[1]] = rr.target

\* ------------------------------------------------------------ C28
\* C28: stop does not hold the manager's lock while it waits for the child
\* to terminate, so another thread's start or stop can take the lock.
StopWaitsUnlocked ==
  \A t \in Threads : Terminating(t) => lock # t

\* ------------------------------------------------------------ C29
\* the restart calls for n that have done their counter update
RestartsCounted(n) ==
  {t \in Threads : top[t] \in RestartTops /\ cur[t] = n /\ pc[t] \notin {"r_read", "r_write"}}

\* C29: after any interleaving of restart calls for a service its
\* restart_count has grown by the number of calls; no increment is lost.
RestartCountExact ==
  \A n \in SvcSet : restart_counts[n] = Cardinality(RestartsCounted(n))

\* ------------------------------------------------------------ C30
Signalled(p) == \E sg \in signals : sg[1] = p

\* C30: start never replaces the handle of a live child, and every live
\* child is the current handle of its service or has been sent a
\* termination signal by stop; so a service has at most one live child that
\* is not being terminated.
NoOrphanChild ==
  /\ [](\A p \in alive : procs[owner[p]] = p \/ Signalled(p))
  /\ [](\A p, q \in alive :
          (owner[p] = owner[q] /\ ~Signalled(p) /\ ~Signalled(q)) => p = q)
  /\ [][\A n \in SvcSet :
          (procs'[n] # procs[n] /\ procs'[n] # NoPid) => procs[n] \notin alive]_vars

\* both calls were for the same service and have returned: two children
\* were launched for it, the first was stopped by the restart, the second
\* is the handle
SecondChildIsHandle ==
  /\ \A t \in Threads : pc[t] = "ret"
  /\ cur["loop"] = cur["http"]
  /\ next_pid = 3
  /\ procs[cur["loop"]] = 2
  /\ 2 \in alive

\* ------------------------------------------------------------ C31
\* C31: a service with a process handle in the registry has
\* desired_running true; a service with desired_running false has no handle.
HandleImpliesDesired ==
  \A n \in SvcSet : procs[n] # NoPid => desired_running[n]

\* one service is down on purpose after having run, the other has exited
\* by itself, keeps its handle and note_exit has been called for it
StoppedAndExitedNoted ==
  \E n, m \in SvcSet :
    /\ ~desired_running[n] /\ procs[n] = NoPid /\ last_pids[n] # NoPid
    /\ procs[m] # NoPid /\ Poll(m) # NoCode /\ noted[m]

\* ------------------------------------------------------------ C34
\* the handle of n is that of a child that has exited
DeadHandle(n) == procs[n] # NoPid /\ Poll(n) # NoCode

\* thread t runs the start or the stop of a call made for service n
CallOn(t, n) == cur[t] = n /\ pc[t] \in {"start", "stop"} /\ top[t] # "-"

ExitedLines(n) == {i \in DOMAIN entries[n] : entries[n][i].kind = "exited"}

\* C35: note_exit compares with the last recorded code only, and neither
\* start nor restart resets it: no step of a start or restart changes
\* last_exit_codes, and when a child exits with the code that is recorded,
\* the exit-detection pass appends no "process exited" line for it.
SameCodeExitNotLogged ==
  /\ [][\A t \in Threads :
          (Took(t) /\ pc[t] \in {"start", "stop", "r_read", "r_write", "r_wait"})
            => last_exit_codes' = last_exit_codes]_vars
  /\ [][\A n \in SvcSet :
          (NotesExit(n) /\ ~noted[n] /\ noted'[n] /\ Poll(n) = last_exit_codes[n])
            => (ExitedLines(n)' = ExitedLines(n) /\ exit_lines'[n] = exit_lines[n])]_vars

\* a second child of the service exited with the code of the first: the
\* buffer holds the "process exited" line of the first exit, then the
\* "started" line of the second child, and no line for its exit, which the
\* loop has noted
SecondExitSilent ==
  \E n \in SvcSet :
    /\ DeadHandle(n) /\ noted[n] /\ exit_lines[n] = 0
    /\ procs[n] >= 2
    /\ \E i, j \in DOMAIN entries[n] :
         /\ i < j
         /\ entries[n][i].kind = "exited" /\ entries[n][i].arg = Poll(n)
         /\ entries[n][j].kind = "started" /\ entries[n][j].arg = procs[n]
         /\ \A k \in DOMAIN entries[n] : k > j => entries[n][k].kind # "exited"

\* ------------------------------------------------------------ C36
\* an entry with an id above after_id has been appended for the service the
\* reader asks about
NewerAppended(r) ==
  \E j \in DOMAIN appended[r.name] : appended[r.name][j] > r.after

\* C36: no wake-up is lost: when wait_for_new returns, at once, after a
\* notify or at the timeout, and an entry newer than after_id has been
\* appended for the service by then, it returns true; and an append never
\* leaves a reader in its wait unnotified.
NoLostWakeup ==
  /\ [][(rd'.op = "wait" /\ rd'.pc = "done" /\ rd.pc # "done" /\ NewerAppended(rd'))
          => rd'.ok]_vars
  /\ [][(rd.op = "wait" /\ rd.pc = "waiting" /\ next_id' # next_id) => rd'.pc = "woken"]_vars
  /\ []((rd.op = "wait" /\ rd.pc = "waiting") => ~NewerAppended(rd))

\* a reader that found nothing and went to wait has been notified by an
\* append for its service on a full buffer, after one for the other service
WokenByOwnAppend ==
  /\ rd.op = "wait" /\ rd.pc = "woken"
  /\ NewerAppended(rd)
  /\ Len(entries[rd.name]) = MaxEntries
  /\ Len(appended[rd.name]) > MaxEntries
  /\ \E n \in SvcSet : n # rd.name /\ appended[n] # <<>>

\* ------------------------------------------------------------ C32
\* C32: a stop(name) that runs while a restart(name) is in its port wait
\* does not cancel the restart: the step of the stop leaves the restart
\* where it is, the restart leaves its wait only for start (or because the
\* port is held by another process), and when its start has launched the
\* child and both calls have returned the service has a handle and
\* desired_running true.
LateStopDoesNotCancel ==
  /\ [][\A t \in Threads :
          (pc[t] = "r_wait" /\ cur[t] \in late_stop' \ late_stop)
            => <<pc[t], cur[t], top[t], iters[t], old_pid[t]>>' = <<pc[t], cur[t], top[t], iters[t], old_pid[t]>>]_vars
  /\ [][\A t \in Threads :
          (pc[t] = "r_wait" /\ pc'[t] # "r_wait") => (pc'[t] = "start" \/ br'[t] = "blocked")]_vars
  /\ [](\A t \in Threads :
          (/\ top[t] \in RestartTops /\ cur[t] \in late_stop
           /\ br[t] = "spawned"
           /\ \A u \in Threads : pc[u] = "ret")
            => (desired_running[cur[t]] /\ procs[cur[t]] # NoPid))

\* the stop of a request ran in the port wait of the watchdog's restart of
\* the same service; both have returned and the child of the restart runs
StoppedServiceRunsAgain ==
  /\ top["http"] = "stop" /\ top["loop"] = "wd_restart"
  /\ cur["http"] \in late_stop
  /\ \A u \in Threads : pc[u] = "ret"
  /\ br["loop"] = "spawned"
  /\ desired_running[cur["loop"]]
  /\ procs[cur["loop"]] \in alive

\* ------------------------------------------------------------ C39
\* the threads inside the try block of run_update
Updating == {t \in Threads : up.pc[t] = "loop"}

\* C39: at most one run_update is inside its update at a time; a call made
\* while one runs returns "update_already_running" and has handled no
\* repository; the flag is set exactly while a call is inside, so it is
\* clear again after a return and after an exception.
OneUpdateAtATime ==
  /\ [](Cardinality(Updating) <= 1)
  /\ [](up.running <=> Updating # {})
  /\ [](\A t \in Threads : up.res[t] = "update_already_running" => up.results[t] = <<>>)
  /\ [][\A t \in Threads :
          (up.pc[t] = "idle" /\ up'.pc[t] # "idle" /\ up.running)
            => up' = [up EXCEPT !.pc[t] = "done", !.res[t] = "update_already_running"]]_vars

\* a call ended by an exception, and the call made after it on the other
\* thread was let in and has pulled a repository
UpdateAfterFailedUpdate ==
  \E t, u \in Threads :
    /\ up.pc[t] = "done" /\ up.res[t] = "error"
    /\ up.pc[u] = "loop"
    /\ \E i \in DOMAIN up.results[u] : up.results[u][i] = "updated"

\* ------------------------------------------------------------ C33
\* the kind of the newest line of service n in the store es
NewestKind(es, n) == es[n][Len(es[n])].kind

\* the loop thread is handling the event recorded last in evlog
HandlingEvent == top["loop"] = "wd_restart"

\* C33: the control loop enters restart for the service of every event it
\* handles whatever desired_running says (only a failing reinstall keeps it
\* from the call); when the event is for a service that was stopped on
\* purpose the restart is never blocked, it leaves desired_running set, and
\* it has launched a process unless the launch itself raised.  The restart
\* after an update enters restart only for services whose flag is set and
\* leaves the others as they are.
WatchRestartIgnoresDesired ==
  /\ [](pc["loop"] = "ev" /\ evq # <<>> => ENABLED EvTake(TRUE))
  /\ [][(pc["loop"] = "ev" /\ Len(evlog') > Len(evlog))
          => \/ /\ pc'["loop"] = "r_read" /\ top'["loop"] = "wd_restart"
                /\ cur'["loop"] = Head(evq).service
             \/ /\ Head(evq).action # "restart"
                /\ evlog'[Len(evlog')].how = "reinstall_failed"]_vars
  /\ []((HandlingEvent /\ pc["loop"] = "ret" /\ ~evlog[Len(evlog)].wanted)
          => /\ desired_running[cur["loop"]]
             /\ br["loop"] \in {"spawned", "raised"}
             /\ br["loop"] = "spawned" => procs[cur["loop"]] # NoPid)
  /\ [][(pc["http"] = "repo" /\ pc'["http"] = "r_read") => desired_running[cur["http"]]]_vars
  /\ [][\A n \in SvcSet :
          (/\ top["http"] = "repo_restart" /\ ~desired_running[n]
           /\ cur["http"] # n \/ pc["http"] = "repo")
            => /\ ~desired_running'[n]
               /\ procs'[n] = procs[n]
               /\ restart_counts'[n] = restart_counts[n]]_vars

\* the pass over the events is over, and an event for a service that was
\* stopped on purpose has left it wanted and running
WatchEventStartedStopped ==
  /\ pc["loop"] = "idle"
  /\ \E i \in DOMAIN evlog :
       /\ ~evlog[i].wanted /\ evlog[i].how = "spawned"
       /\ desired_running[evlog[i].service]
       /\ IsLive(evlog[i].service)

\* ------------------------------------------------------------ C38
\* the events handled so far for service n that got as far as restart
CalledRestart(n) ==
  {i \in DOMAIN evlog : evlog[i].service = n /\ evlog[i].how # "reinstall_failed"}

\* restart(n) of the event being handled has not counted itself yet
NotCountedYet(n) ==
  IF HandlingEvent /\ cur["loop"] = n /\ pc["loop"] \in {"r_read", "r_write"} THEN 1 ELSE 0

\* C38: a failing reinstall and a failing restart each leave a "watchdog
\* failed" line as the newest line of the event's service; after a failing
\* reinstall restart is not called for that event; the control loop stays
\* in its loop, takes the remaining events one by one, and reaches the exit
\* detection.
EventFailureIsContained ==
  /\ [][(pc["loop"] = "ev" /\ Len(evlog') > Len(evlog)
          /\ evlog'[Len(evlog')].how = "reinstall_failed")
          => /\ NewestKind(entries', Head(evq).service) = "watchdog failed"
             /\ pc'["loop"] = "ev" /\ evq' = Tail(evq)
             /\ UNCHANGED <<mgr, osv>>]_vars
  /\ [](top["http"] = "-" =>
          \A n \in SvcSet : restart_counts[n] = Cardinality(CalledRestart(n)) - NotCountedYet(n))
  /\ [][(HandlingEvent /\ br["loop"] # "raised" /\ br'["loop"] = "raised")
          => /\ NewestKind(entries', cur["loop"]) = "watchdog failed"
             /\ pc'["loop"] = "ret" /\ top'["loop"] = "wd_restart"
             /\ evq' = evq]_vars
  /\ [](pc["loop"] # "down" /\ top["loop"] \notin {"finally", "shutdown"})
  /\ [][evq' # evq => (evq = <<>> \/ (evq' = Tail(evq) /\ evlog' # <<>>
                                        /\ evlog'[Len(evlog')].service = Head(evq).service))]_vars
  /\ []((pc["loop"] = "ret" /\ HandlingEvent) => ENABLED EvBack)
  /\ []((pc["loop"] = "ev" /\ evq # <<>>) => \E ok \in BOOLEAN : ENABLED EvTake(ok))
  /\ []((pc["loop"] = "ev" /\ evq = <<>>) => ENABLED EvEnd)
  /\ [](pc["loop"] = "idle" => ENABLED LoopPoll)

\* the reinstall of the first event failed, the restart of the second one
\* raised, and the exit detection that followed recorded a dead child
FailedEventsThenExitNoted ==
  /\ pc["loop"] = "idle"
  /\ Len(evlog) = 2
  /\ evlog[1].how = "reinstall_failed" /\ evlog[2].how = "raised"
  /\ \E n \in SvcSet : noted[n]

\* ------------------------------------------------------------ C37
\* the thread whose lock thread t is waiting for, NoThread if t is not
\* waiting for a lock
Blocker(t) ==
  IF t \notin LockThreads \/ lk[t] = <<>> THEN NoThread
  ELSE IF Head(lk[t]) = "acqM" THEN lock
  ELSE IF Head(lk[t]) \in {"acqL", "wake"} THEN llock
  ELSE NoThread

\* thread t is inside a call and its next step does not wait for a lock
CanStep(t) == t \in LockThreads /\ lk[t] # <<>> /\ Blocker(t) = NoThread

\* C37: the manager's lock is never acquired by a thread that holds the
\* store's lock; the holder of the store's lock goes on to release it or to
\* wait on the condition, and the holder of the manager's lock goes on to
\* _terminate, to the store's lock or to a release; so a call in flight
\* can step, or waits for a thread that can step, or waits for the holder
\* of the manager's lock who waits for a thread that can step.
NoLockCycle ==
  /\ [][\A t \in LockThreads : (lock' = t /\ lock # t) => llock # t]_vars
  /\ [](\A t \in LockThreads : llock = t => (lk[t] # <<>> /\ Head(lk[t]) \in {"relL", "wait"}))
  /\ [](\A t \in LockThreads :
          lock = t => (lk[t] # <<>> /\ Head(lk[t]) \in {"term", "acqL", "relL", "relM"}))
  /\ [](\A t \in LockThreads :
          lk[t] # <<>> =>
            \/ CanStep(t)
            \/ CanStep(Blocker(t))
            \/ (Blocker(t) = lock /\ Blocker(lock) = llock /\ CanStep(llock)))
  /\ [](\A t \in LockThreads : CanStep(t) <=> ENABLED LkStep(t))

\* a stop holds the manager's lock and waits for the store's lock, which an
\* append on another thread holds, while the third thread is inside
\* wait_for_new with the store's lock given up
LocksNestedAndContended ==
  \E t, u, v \in LockThreads :
    /\ lock = t /\ Head(lk[t]) = "acqL"
    /\ llock = u /\ u # t
    /\ lk[v] # <<>> /\ Head(lk[v]) = "wake"
====
